---- MODULE Spec2Model ----
(***************************************************************************)
(* Model of the server-rendering pipeline of rosenauinfo: the request      *)
(* handlers of functions/src (resume HTML, resume PDF redirect, sitemap),  *)
(* the projectors and normalizers they call, the site-origin resolver and  *)
(* the URL gate, plus the client-side duplicates of the normalizers.       *)
(*                                                                         *)
(* Strings are sequences of one-character strings, so that trimming,       *)
(* splitting, prefix tests and URL parsing are computed, not assumed.      *)
(* A JavaScript value is a record tagged by its typeof-like field t.       *)
(***************************************************************************)
EXTENDS Integers, Sequences, FiniteSets, TLC

(***************************************************************************)
(* Characters and strings                                                  *)
(***************************************************************************)
LowerAlpha ==
  {"a","b","c","d","e","f","g","h","i","j","k","l","m",
   "n","o","p","q","r","s","t","u","v","w","x","y","z"}

UpperAlpha ==
  {"A","B","C","D","E","F","G","H","I","J","K","L","M",
   "N","O","P","Q","R","S","T","U","V","W","X","Y","Z"}

Digits == {"0","1","2","3","4","5","6","7","8","9"}

Whitespace == {" ", "\n", "\t"}

LowerOf ==
  [c \in UpperAlpha |->
     CASE c = "A" -> "a" [] c = "B" -> "b" [] c = "C" -> "c" [] c = "D" -> "d"
       [] c = "E" -> "e" [] c = "F" -> "f" [] c = "G" -> "g" [] c = "H" -> "h"
       [] c = "I" -> "i" [] c = "J" -> "j" [] c = "K" -> "k" [] c = "L" -> "l"
       [] c = "M" -> "m" [] c = "N" -> "n" [] c = "O" -> "o" [] c = "P" -> "p"
       [] c = "Q" -> "q" [] c = "R" -> "r" [] c = "S" -> "s" [] c = "T" -> "t"
       [] c = "U" -> "u" [] c = "V" -> "v" [] c = "W" -> "w" [] c = "X" -> "x"
       [] c = "Y" -> "y" [] OTHER -> "z"]

\* String.prototype.toLowerCase
toLowerCase(s) ==
  LET LowerChar(c) ==
        IF c \in UpperAlpha THEN LowerOf[c] ELSE c
  IN  [i \in 1..Len(s) |-> LowerChar(s[i])]

\* s.slice(from) with a 1-based start
DropFirst(s, n) == IF n >= Len(s) THEN <<>> ELSE SubSeq(s, n + 1, Len(s))

TakeFirst(s, n) == IF n >= Len(s) THEN s ELSE SubSeq(s, 1, n)

\* String.prototype.startsWith
startsWith(s, p) == Len(p) <= Len(s) /\ SubSeq(s, 1, Len(p)) = p

\* String.prototype.endsWith
endsWith(s, p) ==
  Len(p) <= Len(s) /\ SubSeq(s, Len(s) - Len(p) + 1, Len(s)) = p

\* String.prototype.includes
includes(s, p) ==
  \E i \in 1..(Len(s) + 1) :
    i + Len(p) - 1 <= Len(s) /\ SubSeq(s, i, i + Len(p) - 1) = p

\* number of leading / trailing whitespace characters
RECURSIVE LeadingWs(_)
LeadingWs(s) ==
  IF s = <<>> \/ Head(s) \notin Whitespace THEN 0 ELSE 1 + LeadingWs(Tail(s))

RECURSIVE TrailingWs(_)
TrailingWs(s) ==
  IF s = <<>> \/ s[Len(s)] \notin Whitespace
  THEN 0 ELSE 1 + TrailingWs(SubSeq(s, 1, Len(s) - 1))

\* String.prototype.trim
trim(s) ==
  LET a == LeadingWs(s)
  IN  IF a = Len(s) THEN <<>>
      ELSE SubSeq(s, a + 1, Len(s) - TrailingWs(s))

\* index of the first character of s that lies in the set cs, 0 if none
RECURSIVE IndexOfAny(_, _)
IndexOfAny(s, cs) ==
  IF s = <<>> THEN 0
  ELSE IF Head(s) \in cs THEN 1
  ELSE LET r == IndexOfAny(Tail(s), cs) IN IF r = 0 THEN 0 ELSE r + 1

\* String.prototype.split on any single character of the set cs
RECURSIVE SplitOn(_, _)
SplitOn(s, cs) ==
  LET i == IndexOfAny(s, cs)
  IN  IF i = 0 THEN <<s>>
      ELSE <<SubSeq(s, 1, i - 1)>> \o SplitOn(DropFirst(s, i), cs)

\* Array.prototype.filter(Boolean) on an array of strings
DropEmpty(ss) == SelectSeq(ss, LAMBDA e : e # <<>>)

\* Array.prototype.join with the empty separator
RECURSIVE Concat(_)
Concat(ss) == IF ss = <<>> THEN <<>> ELSE Head(ss) \o Concat(Tail(ss))

(***************************************************************************)
(* JavaScript values as stored in Firestore or received in a request       *)
(***************************************************************************)
Undef == [t |-> "undefined"]
Null == [t |-> "null"]
Str(s) == [t |-> "string", v |-> s]
Num(n) == [t |-> "number", n |-> n]
Arr(a) == [t |-> "array", v |-> a]
Obj(o) == [t |-> "object", v |-> o]

\* the ?? operator
Coalesce(a, b) == IF a.t \in {"undefined", "null"} THEN b ELSE a

\* pick: the trimmed string, '' for every non-string
pick(value) == IF value.t = "string" THEN trim(value.v) ELSE <<>>

(***************************************************************************)
(* new URL(value): the WHATWG parser without a base URL, for input over    *)
(* letters, digits and the punctuation  : / . - + , | & < > " ' space tab  *)
(* newline.  Hosts whose last label is a number (IPv4 literals), "?", "#", *)
(* "@", "\", "%" and dot-segments are outside the modelled input.          *)
(***************************************************************************)
SchemeChars == LowerAlpha \cup UpperAlpha \cup Digits \cup {"+", "-", "."}

ForbiddenHostChars == {" ", "\t", "\n", "/", ":", "<", ">", "|"}

S_http == <<"h","t","t","p">>
S_https == <<"h","t","t","p","s">>
S_colonSlashSlash == <<":","/","/">>

\* leading and trailing space removed, then every tab and newline removed
UrlInput(s) ==
  LET noCtl == SelectSeq(s, LAMBDA c : c \notin {"\t", "\n"})
      lead == CHOOSE n \in 0..Len(noCtl) :
                /\ \A k \in 1..n : noCtl[k] = " "
                /\ (n < Len(noCtl) => noCtl[n + 1] # " ")
      rest == DropFirst(noCtl, lead)
      keep == CHOOSE n \in 0..Len(rest) :
                /\ \A k \in (n + 1)..Len(rest) : rest[k] = " "
                /\ (n > 0 => rest[n] # " ")
  IN  TakeFirst(rest, keep)

\* number of characters of the scheme of s, 0 when s does not start with one
SchemeLen(s) ==
  LET i == IndexOfAny(s, {":"})
  IN  IF i <= 1 THEN 0
      ELSE IF /\ s[1] \in LowerAlpha \cup UpperAlpha
              /\ \A k \in 2..(i - 1) : s[k] \in SchemeChars
           THEN i - 1
           ELSE 0

\* number of leading "/" of s
RECURSIVE LeadingSlashes(_)
LeadingSlashes(s) ==
  IF s = <<>> \/ Head(s) # "/" THEN 0 ELSE 1 + LeadingSlashes(Tail(s))

DigitVal(c) ==
  CASE c = "0" -> 0 [] c = "1" -> 1 [] c = "2" -> 2 [] c = "3" -> 3
    [] c = "4" -> 4 [] c = "5" -> 5 [] c = "6" -> 6 [] c = "7" -> 7
    [] c = "8" -> 8 [] OTHER -> 9

\* value of a digit string, saturating above the largest port
RECURSIVE DecimalValue(_, _)
DecimalValue(s, acc) ==
  IF s = <<>> THEN acc
  ELSE IF acc > 65535 THEN acc
  ELSE DecimalValue(Tail(s), acc * 10 + DigitVal(Head(s)))

RECURSIVE StripZeros(_)
StripZeros(s) ==
  IF Len(s) > 1 /\ Head(s) = "0" THEN StripZeros(Tail(s)) ELSE s

DefaultPort(scheme) == IF scheme = S_https THEN 443 ELSE 80

\* the path percent-encode set restricted to the modelled characters
EncodePath(s) ==
  LET PathEncode(c) ==
        CASE c = " " -> <<"%","2","0">>
          [] c = "\"" -> <<"%","2","2">>
          [] c = "<" -> <<"%","3","C">>
          [] c = ">" -> <<"%","3","E">>
          [] OTHER -> <<c>>
  IN  Concat([i \in 1..Len(s) |-> PathEncode(s[i])])

UrlFailure == [ok |-> FALSE]

\* The parsed URL of an http(s) input: protocol without the colon, host,
\* port ('' when default or absent) and path.  Every other scheme parses
\* (or fails) to something whose protocol is neither http: nor https:, which
\* is all that the callers test, so it is returned as protocol "other".
\* host and port states of the parser
ParseHostPort(scheme, rawHost, rawPort, rawPath) ==
  IF rawHost = <<>> THEN UrlFailure
  ELSE IF \E k \in 1..Len(rawHost) : rawHost[k] \in ForbiddenHostChars
    THEN UrlFailure
  ELSE IF \E k \in 1..Len(rawPort) : rawPort[k] \notin Digits
    THEN UrlFailure
  ELSE IF DecimalValue(rawPort, 0) > 65535 THEN UrlFailure
  ELSE [ok |-> TRUE,
        protocol |-> scheme,
        hostname |-> toLowerCase(rawHost),
        port |-> IF rawPort = <<>> \/ DecimalValue(rawPort, 0) = DefaultPort(scheme)
                 THEN <<>> ELSE StripZeros(rawPort),
        pathname |-> IF rawPath = <<>> THEN <<"/">> ELSE EncodePath(rawPath)]

\* the authority split at its first ":" (colon = 0 when it has none)
ParseAuthority(scheme, authority, colon, rawPath) ==
  ParseHostPort(scheme,
                IF colon = 0 THEN authority ELSE TakeFirst(authority, colon - 1),
                IF colon = 0 THEN <<>> ELSE DropFirst(authority, colon),
                rawPath)

\* what follows the slashes, split at its first "/" (slash = 0 when none)
ParseAfterSlashes(scheme, rest, slash) ==
  ParseAuthority(scheme,
                 IF slash = 0 THEN rest ELSE TakeFirst(rest, slash - 1),
                 IndexOfAny(IF slash = 0 THEN rest ELSE TakeFirst(rest, slash - 1),
                            {":"}),
                 IF slash = 0 THEN <<>> ELSE DropFirst(rest, slash - 1))

\* special-authority-ignore-slashes state
ParseAfterScheme(scheme, afterColon) ==
  IF scheme \notin {S_http, S_https}
  THEN [ok |-> TRUE, protocol |-> <<"o","t","h","e","r">>]
  ELSE ParseAfterSlashes(scheme,
                         DropFirst(afterColon, LeadingSlashes(afterColon)),
                         IndexOfAny(DropFirst(afterColon, LeadingSlashes(afterColon)),
                                    {"/"}))

\* scheme state: n characters of scheme, 0 when the input has none
ParseScheme(s, n) ==
  IF n = 0 THEN UrlFailure
  ELSE ParseAfterScheme(toLowerCase(TakeFirst(s, n)), DropFirst(s, n + 1))

ParseTrimmed(s) == ParseScheme(s, SchemeLen(s))

ParseUrl(value) == ParseTrimmed(UrlInput(value))

\* URL.prototype.origin of an http(s) URL
UrlOrigin(u) ==
  u.protocol \o S_colonSlashSlash \o u.hostname
    \o (IF u.port = <<>> THEN <<>> ELSE <<":">> \o u.port)

\* URL.prototype.toString of an http(s) URL
UrlToString(u) == UrlOrigin(u) \o u.pathname

\* /^https?:\/\//i.test(raw)
HasHttpPrefix(raw) ==
  LET low == toLowerCase(raw)
  IN  \/ startsWith(low, S_http \o S_colonSlashSlash)
      \/ startsWith(low, S_https \o S_colonSlashSlash)

(***************************************************************************)
(* functions/src/resume.ts: normalizers, URL gate and projectors           *)
(***************************************************************************)
Languages == {"en", "ja"}

OtherLanguage(language) == IF language = "ja" THEN "en" ELSE "ja"

S_ja == <<"j","a">>
S_en == <<"e","n">>

\* a stored document is Null (it does not exist) or an object; reading a
\* key the object does not hold gives undefined
Field(obj, key) ==
  IF obj.t = "object" /\ key \in DOMAIN obj.v THEN obj.v[key] ELSE Undef

\* req.get(name): the header value or undefined
Header(req, name) ==
  IF name \in DOMAIN req.headers THEN req.headers[name] ELSE Undef

normalizeLanguage(req) ==
  LET lang == req.query.lang
      queryLang == IF lang.t = "array"
                   THEN (IF lang.v = <<>> THEN Undef ELSE lang.v[1])
                   ELSE lang
      raw == toLowerCase(pick(queryLang))
  IN  IF startsWith(raw, S_ja) THEN "ja"
      ELSE IF startsWith(raw, S_en) THEN "en"
      ELSE "en"

toList(value) ==
  IF value.t = "array"
  THEN DropEmpty([i \in 1..Len(value.v) |-> pick(value.v[i])])
  ELSE LET lines == SplitOn(pick(value), {"\n"})
       IN  DropEmpty([i \in 1..Len(lines) |-> trim(lines[i])])

\* String.prototype.split(/\n{2,}/)
RECURSIVE SplitBlankLines(_, _)
SplitBlankLines(s, acc) ==
  IF s = <<>> THEN <<acc>>
  ELSE IF Len(s) >= 2 /\ s[1] = "\n" /\ s[2] = "\n"
    THEN LET run == CHOOSE n \in 2..Len(s) :
                      /\ \A k \in 1..n : s[k] = "\n"
                      /\ (n < Len(s) => s[n + 1] # "\n")
         IN  <<acc>> \o SplitBlankLines(DropFirst(s, run), <<>>)
  ELSE SplitBlankLines(Tail(s), Append(acc, Head(s)))

toParagraphs(value) ==
  LET parts == SplitBlankLines(pick(value), <<>>)
  IN  DropEmpty([i \in 1..Len(parts) |-> trim(parts[i])])

escapeHtml(value) ==
  LET EscapeHtmlChar(c) ==
        CASE c = "&" -> <<"&","a","m","p",";">>
          [] c = "<" -> <<"&","l","t",";">>
          [] c = ">" -> <<"&","g","t",";">>
          [] c = "\"" -> <<"&","q","u","o","t",";">>
          [] c = "'" -> <<"&","#","3","9",";">>
          [] OTHER -> <<c>>
  IN  Concat([i \in 1..Len(value) |-> EscapeHtmlChar(value[i])])

\* string | null
SafeUrlOf(parsed) ==
  IF ~parsed.ok THEN Null
  ELSE IF parsed.protocol # S_https /\ parsed.protocol # S_http THEN Null
  ELSE Str(UrlToString(parsed))

safeUrl(value) == SafeUrlOf(ParseUrl(value))

\* toSafeUrl prepending "https://" without looking for a scheme
WithProtocol_Always(raw) == S_https \o S_colonSlashSlash \o raw

WithProtocol(raw) ==
  IF HasHttpPrefix(raw) THEN raw ELSE S_https \o S_colonSlashSlash \o raw

ToSafeUrlOf(raw) == IF raw = <<>> THEN Null ELSE safeUrl(WithProtocol(raw))

toSafeUrl(value) == ToSafeUrlOf(pick(value))

\* the URL stored for one language: its own field, else the legacy field
ResumeUrlField(doc, language) ==
  pick(Coalesce(Field(doc, IF language = "ja" THEN "url_ja" ELSE "url_en"),
                Field(doc, "url")))

\* the fallback applied to the raw strings, the gate to whichever is chosen
preferredResumeUrl_RawFallback(doc, language) ==
  IF doc.t = "null" THEN Null
  ELSE safeUrl(IF ResumeUrlField(doc, language) # <<>>
               THEN ResumeUrlField(doc, language)
               ELSE ResumeUrlField(doc, OtherLanguage(language)))

preferredResumeUrl(doc, language) ==
  IF doc.t = "null" THEN Null
  ELSE Coalesce(safeUrl(ResumeUrlField(doc, language)),
                safeUrl(ResumeUrlField(doc, OtherLanguage(language))))

\* the summary of one language, without the legacy field
summaryParagraphs_NoLegacy(doc, language) ==
  IF doc.t = "null" THEN <<>>
  ELSE toParagraphs(Field(doc, IF language = "ja" THEN "summary_ja" ELSE "summary_en"))

summaryParagraphs(doc, language) ==
  LET localized ==
        IF language = "ja"
        THEN toParagraphs(Coalesce(Field(doc, "summary_ja"), Field(doc, "summary")))
        ELSE toParagraphs(Coalesce(Field(doc, "summary_en"), Field(doc, "summary")))
  IN  IF doc.t = "null" THEN <<>>
      ELSE IF Len(localized) > 0 THEN localized
      ELSE IF language = "ja"
        THEN toParagraphs(Coalesce(Field(doc, "summary_en"), Field(doc, "summary")))
        ELSE toParagraphs(Coalesce(Field(doc, "summary_ja"), Field(doc, "summary")))

DigitChar(n) ==
  CASE n = 0 -> "0" [] n = 1 -> "1" [] n = 2 -> "2" [] n = 3 -> "3"
    [] n = 4 -> "4" [] n = 5 -> "5" [] n = 6 -> "6" [] n = 7 -> "7"
    [] n = 8 -> "8" [] OTHER -> "9"

\* String(n) for a natural number
RECURSIVE NumberToString(_)
NumberToString(n) ==
  IF n < 10 THEN <<DigitChar(n)>>
  ELSE Append(NumberToString(n \div 10), DigitChar(n % 10))

\* `section-${index}` with the 0-based index of Array.prototype.map
SectionId(index) ==
  <<"s","e","c","t","i","o","n","-">> \o NumberToString(index)

\* the fallback taken item by item: the items the primary list lacks come
\* from the other language
ChooseList_PerItem(primary, fallback) ==
  primary \o SubSeq(fallback, Len(primary) + 1, Len(fallback))

\* itemsPrimary.length > 0 ? itemsPrimary : itemsFallback
ChooseList(primary, fallback) == IF Len(primary) > 0 THEN primary ELSE fallback

\* the callback of sections.map for one entry that is not null or undefined
NormalizeSection(section, index, language) ==
  LET titlePrimary ==
        IF language = "ja"
        THEN pick(Coalesce(Field(section, "title_ja"), Field(section, "title")))
        ELSE pick(Coalesce(Field(section, "title_en"), Field(section, "title")))
      titleFallback ==
        IF language = "ja"
        THEN pick(Coalesce(Field(section, "title_en"), Field(section, "title")))
        ELSE pick(Coalesce(Field(section, "title_ja"), Field(section, "title")))
      itemsPrimary ==
        IF language = "ja"
        THEN toList(Coalesce(Field(section, "items_ja"), Field(section, "items")))
        ELSE toList(Coalesce(Field(section, "items_en"), Field(section, "items")))
      itemsFallback ==
        IF language = "ja"
        THEN toList(Coalesce(Field(section, "items_en"), Field(section, "items")))
        ELSE toList(Coalesce(Field(section, "items_ja"), Field(section, "items")))
  IN  [id |-> IF pick(Field(section, "id")) # <<>>
              THEN pick(Field(section, "id"))
              ELSE SectionId(index),
       title |-> IF titlePrimary # <<>> THEN titlePrimary ELSE titleFallback,
       items |-> ChooseList(itemsPrimary, itemsFallback)]

\* The result of a call that may throw: threw = TRUE when it raised.
Returned(v) == [threw |-> FALSE, value |-> v]
Thrown == [threw |-> TRUE]

\* Reading a property of null or undefined raises a TypeError, so the map
\* callback throws on the first entry that is null or undefined.
normalizeSections(doc, language) ==
  LET sections == Field(doc, "sections")
  IN  IF doc.t = "null" \/ sections.t # "array" THEN Returned(<<>>)
      ELSE IF \E i \in 1..Len(sections.v) :
                sections.v[i].t \in {"null", "undefined"}
        THEN Thrown
      ELSE Returned(
             SelectSeq(
               [i \in 1..Len(sections.v) |->
                  NormalizeSection(sections.v[i], i - 1, language)],
               LAMBDA sec : sec.title # <<>> \/ Len(sec.items) > 0))

DEFAULT_PERSON_NAME == <<"J","a","r","o","n"," ","R","o","s","e","n","a","u">>

personName(site, language) ==
  LET en == pick(Coalesce(Field(site, "name_en"), Field(site, "name")))
      ja == pick(Coalesce(Field(site, "name_ja"), Field(site, "name")))
  IN  IF language = "ja"
      THEN (IF ja # <<>> THEN ja ELSE IF en # <<>> THEN en ELSE DEFAULT_PERSON_NAME)
      ELSE (IF en # <<>> THEN en ELSE IF ja # <<>> THEN ja ELSE DEFAULT_PERSON_NAME)

\* `Profile ${index + 1}` with the 0-based index of Array.prototype.map
ProfileLabel(index) ==
  <<"P","r","o","f","i","l","e"," ">> \o NumberToString(index + 1)

\* entry.split('|', 2).map(part => part.trim()): at most the first two parts
TrimFirstTwo(parts) ==
  [i \in 1..(IF Len(parts) > 2 THEN 2 ELSE Len(parts)) |-> trim(parts[i])]

SplitLabelUrl(entry) == TrimFirstTwo(SplitOn(entry, {"|"}))

\* ProfileLink | null
LinkOf(labelPart, url, fallbackLabel) ==
  IF url.t = "null" THEN Null
  ELSE [t |-> "link",
        label |-> IF labelPart # <<>> THEN labelPart ELSE fallbackLabel,
        url |-> url.v]

LinkOfPair(pair, fallbackLabel) ==
  LinkOf(pair[1], toSafeUrl(Str(pair[2])), fallbackLabel)

normalizeEntry(entry, fallbackLabel) ==
  IF entry = <<>> THEN Null
  ELSE LinkOfPair(IF includes(entry, <<"|">>)
                  THEN SplitLabelUrl(entry)
                  ELSE <<fallbackLabel, trim(entry)>>,
                  fallbackLabel)

DropNullLinks(entries) == SelectSeq(entries, LAMBDA e : e.t # "null")

\* the map over the entries, labelled by position, and the filter
NormalizeEntries(entries) ==
  DropNullLinks([i \in 1..Len(entries) |->
                   normalizeEntry(entries[i], ProfileLabel(i - 1))])

TrimAll(parts) == [i \in 1..Len(parts) |-> trim(parts[i])]

PickAll(values) == [i \in 1..Len(values) |-> pick(values[i])]

parseProfileLinks(raw) ==
  IF raw.t = "array"
  THEN NormalizeEntries(PickAll(raw.v))
  ELSE NormalizeEntries(DropEmpty(TrimAll(SplitOn(pick(raw), {"\n", ","}))))

\* a Map keyed by url keeps the first link of every url, in insertion order
RECURSIVE DedupeFrom(_, _)
DedupeFrom(links, seen) ==
  IF links = <<>> THEN <<>>
  ELSE IF Head(links).url \in seen THEN DedupeFrom(Tail(links), seen)
  ELSE <<Head(links)>> \o DedupeFrom(Tail(links), seen \cup {Head(links).url})

dedupeProfileLinks(links) == DedupeFrom(links, {})

\* Coalesce over a list of keys of one record: a ?? b ?? c
RECURSIVE FirstOf(_, _)
FirstOf(obj, keys) ==
  IF Len(keys) = 1 THEN Field(obj, keys[1])
  ELSE Coalesce(Field(obj, Head(keys)), FirstOf(obj, Tail(keys)))

KnownLink(label, urlOrNull) ==
  [t |-> "link", label |-> label,
   url |-> IF urlOrNull.t = "null" THEN <<>> ELSE urlOrNull.v]

L_GitHub == <<"G","i","t","H","u","b">>
L_LinkedIn == <<"L","i","n","k","e","d","I","n">>
L_X == <<"X">>
L_Website == <<"W","e","b","s","i","t","e">>
L_Blog == <<"B","l","o","g">>
L_YouTube == <<"Y","o","u","T","u","b","e">>
L_Portfolio == <<"P","o","r","t","f","o","l","i","o">>

GenericLinkKeys == <<"sameAs", "same_as", "profileLinks", "profile_links">>

KnownLinks(site) ==
  SelectSeq(
    << KnownLink(L_GitHub,
         toSafeUrl(FirstOf(site, <<"githubUrl", "github_url", "github">>))),
       KnownLink(L_LinkedIn,
         toSafeUrl(FirstOf(site, <<"linkedinUrl", "linkedin_url", "linkedin">>))),
       KnownLink(L_X,
         toSafeUrl(FirstOf(site,
           <<"xUrl", "x_url", "twitterUrl", "twitter_url", "twitter">>))),
       KnownLink(L_Website,
         toSafeUrl(FirstOf(site, <<"website", "websiteUrl", "website_url">>))),
       KnownLink(L_Blog,
         toSafeUrl(FirstOf(site, <<"blogUrl", "blog_url", "blog">>))) >>,
    LAMBDA link : link.url # <<>>)

profileLinks(site) ==
  IF site.t = "null" THEN <<>>
  ELSE dedupeProfileLinks(
         KnownLinks(site) \o parseProfileLinks(FirstOf(site, GenericLinkKeys)))

(***************************************************************************)
(* web/src/components/Layout.tsx: the client copy of the link normalizer   *)
(***************************************************************************)
normalizeExternalUrl(value) ==
  IF value = <<>> THEN Null ELSE SafeUrlOf(ParseUrl(WithProtocol(value)))

ClientKnownLink(label, value) ==
  KnownLink(label, normalizeExternalUrl(pick(value)))

ClientKnownLinks(raw) ==
  SelectSeq(
    << ClientKnownLink(L_GitHub,
         FirstOf(raw, <<"githubUrl", "github_url", "github">>)),
       ClientKnownLink(L_LinkedIn,
         FirstOf(raw, <<"linkedinUrl", "linkedin_url", "linkedin">>)),
       ClientKnownLink(L_X,
         FirstOf(raw,
           <<"xUrl", "x_url", "twitterUrl", "twitter_url", "twitter">>)),
       ClientKnownLink(L_YouTube,
         FirstOf(raw, <<"youtubeUrl", "youtube_url", "youtube">>)),
       ClientKnownLink(L_Blog,
         FirstOf(raw, <<"blogUrl", "blog_url", "blog">>)),
       ClientKnownLink(L_Portfolio,
         FirstOf(raw, <<"website", "websiteUrl", "website_url">>)) >>,
    LAMBDA link : link.url # <<>>)

\* the array branch labels an entry by its position in the array
ClientLinksOfArray(values) ==
  SelectSeq(
    [i \in 1..Len(values) |->
       KnownLink(ProfileLabel(i - 1), normalizeExternalUrl(pick(values[i])))],
    LAMBDA link : link.url # <<>>)

\* the string branch labels a URL by its position among the accepted URLs
ClientLabelUrls(urls) ==
  [i \in 1..Len(urls) |->
     [t |-> "link", label |-> ProfileLabel(i - 1), url |-> urls[i].v]]

ClientUrlsOfParts(parts) ==
  SelectSeq([i \in 1..Len(parts) |-> normalizeExternalUrl(trim(parts[i]))],
            LAMBDA u : u.t # "null")

ClientSameAs(rawSameAs) ==
  IF rawSameAs.t = "array" THEN ClientLinksOfArray(rawSameAs.v)
  ELSE ClientLabelUrls(ClientUrlsOfParts(SplitOn(pick(rawSameAs), {"\n", ","})))

normalizeProfileLinks(raw) ==
  IF raw.t = "null" THEN <<>>
  ELSE DedupeFrom(ClientKnownLinks(raw) \o ClientSameAs(FirstOf(raw, GenericLinkKeys)),
                  {})

(***************************************************************************)
(* functions/src/siteUrl.ts: the site origin shared by all three handlers  *)
(***************************************************************************)
DEFAULT_SITE_URL ==
  <<"h","t","t","p","s",":","/","/","r","o","s","e","n","a","u",".","i","n","f","o">>

S_yourDashDomain == <<"y","o","u","r","-","d","o","m","a","i","n">>
S_yourdomain == <<"y","o","u","r","d","o","m","a","i","n">>
S_example == <<"e","x","a","m","p","l","e">>

\* value.split(',')[0]?.trim() || ''
firstToken(value) == trim(SplitOn(value, {","})[1])

\* /(^|\.)example\.(com|org|net)$/i on a lower-cased host name
MatchesExampleDomain(normalized) ==
  \E tld \in {<<"c","o","m">>, <<"o","r","g">>, <<"n","e","t">>} :
    LET suffix == S_example \o <<".">> \o tld
    IN  \/ normalized = suffix
        \/ endsWith(normalized, <<".">> \o suffix)

isPlaceholderHostname(hostname) ==
  LET normalized == toLowerCase(hostname)
  IN  \/ normalized = S_yourDashDomain
      \/ includes(normalized, S_yourDashDomain)
      \/ normalized = S_yourdomain
      \/ MatchesExampleDomain(normalized)

OriginOf(parsed, rejectPlaceholders) ==
  IF ~parsed.ok THEN <<>>
  ELSE IF parsed.protocol # S_https /\ parsed.protocol # S_http THEN <<>>
  ELSE IF rejectPlaceholders /\ isPlaceholderHostname(parsed.hostname) THEN <<>>
  ELSE UrlOrigin(parsed)

\* a validator that rejects placeholder hosts whatever their provenance
normalizeOrigin_AlwaysRejects(raw, rejectPlaceholders) ==
  IF raw = <<>> THEN <<>>
  ELSE OriginOf(ParseUrl(WithProtocol(raw)), TRUE)

\* the origin, or '' when raw is rejected
normalizeOrigin(raw, rejectPlaceholders) ==
  IF raw = <<>> THEN <<>>
  ELSE OriginOf(ParseUrl(WithProtocol(raw)), rejectPlaceholders)

\* siteUrlEnv is process.env.SITE_URL: a string or undefined
\* the origin of the request, '' when it has no usable host
RequestOrigin(host, forwardedProto) ==
  normalizeOrigin(
    IF host # <<>>
    THEN (IF forwardedProto = S_http THEN S_http ELSE S_https)
           \o S_colonSlashSlash \o host
    ELSE <<>>,
    FALSE)

\* a || b on strings
OrElse(a, b) == IF a # <<>> THEN a ELSE b

resolveSiteUrl(req, siteUrlEnv) ==
  OrElse(normalizeOrigin(pick(siteUrlEnv), TRUE),
         OrElse(RequestOrigin(
                  OrElse(pick(Header(req, "x-forwarded-host")),
                         pick(Header(req, "host"))),
                  toLowerCase(firstToken(pick(Header(req, "x-forwarded-proto"))))),
                DEFAULT_SITE_URL))

(***************************************************************************)
(* Sample strings                                                          *)
(***************************************************************************)
U_cdnEn == <<"h","t","t","p","s",":","/","/","c","d","n",".","i","o","/","e","n",".","p","d","f">>
U_cdnJa == <<"h","t","t","p","s",":","/","/","c","d","n",".","i","o","/","j","a",".","p","d","f">>
U_cdnNew == <<"h","t","t","p","s",":","/","/","c","d","n",".","i","o","/","v","2",".","p","d","f">>
U_bare == <<"c","d","n",".","i","o","/","c","v",".","p","d","f">>
U_ftp == <<"f","t","p",":","/","/","x",".","c","o","m">>
U_notUrl == <<"n","o","t"," ","a"," ","u","r","l">>
U_github == <<"h","t","t","p","s",":","/","/","g","i","t","h","u","b",".","c","o","m","/","x">>
U_githubUpper == <<"H","T","T","P","S",":","/","/","G","i","t","H","u","b",".","c","o","m","/","x">>
U_blogBare == <<"b","l","o","g",".","i","o">>
T_summary == <<"H","e","l","l","o","\n","\n","W","o","r","l","d">>
T_experience == <<"E","x","p","e","r","i","e","n","c","e">>
T_roleA == <<"R","o","l","e"," ","A">>
T_shokureki == <<"S","h","o","k","u","r","e","k","i">>
T_name == <<"A","&","B"," ","<","C",">">>
H_rosenau == <<"r","o","s","e","n","a","u",".","i","n","f","o">>
U_siteWww == <<"h","t","t","p","s",":","/","/","w","w","w",".","r","o","s","e","n","a","u",".","i","n","f","o","/">>
H_placeholder == <<"y","o","u","r","-","d","o","m","a","i","n",".","c","o","m">>

(***************************************************************************)
(* Storage: the documents public/resume and public/site.  A snapshot has   *)
(* exists = FALSE when the document does not exist.                        *)
(***************************************************************************)
Absent ==
  [exists |-> FALSE, data |-> Undef, updateTime |-> Undef, createTime |-> Undef]

\* a Firestore Timestamp value (it has a toDate method)
Timestamp(seconds) == [t |-> "timestamp", seconds |-> seconds]

Present(fields, created, updated) ==
  [exists |-> TRUE, data |-> Obj(fields),
   updateTime |-> Timestamp(updated), createTime |-> Timestamp(created)]

\* snapshot.exists ? snapshot.data() : null
loadResumeDoc(snapshot) == IF ~snapshot.exists THEN Null ELSE snapshot.data

loadSiteDoc(snapshot) == IF ~snapshot.exists THEN Null ELSE snapshot.data

\* setDoc(ref, fields, { merge: true }) at the instant now
MergeDoc(snapshot, fields, now) ==
  IF ~snapshot.exists THEN Present(fields, now, now)
  ELSE [snapshot EXCEPT
          !.data = Obj([k \in DOMAIN snapshot.data.v \cup DOMAIN fields |->
                          IF k \in DOMAIN fields THEN fields[k]
                          ELSE snapshot.data.v[k]]),
          !.updateTime = Timestamp(now)]

(***************************************************************************)
(* Dates.  An instant is a number of seconds since the epoch (the code's   *)
(* milliseconds divided by 1000, so that every instant fits in 32 bits);   *)
(* a day is a number of days since the epoch.                              *)
(***************************************************************************)
SecondsPerDay == 86400

\* proleptic Gregorian calendar: (year, month, day) of a day number
CivilFromDays(z0) ==
  LET z == z0 + 719468
      era == z \div 146097
      doe == z - era * 146097
      yoe == (doe - doe \div 1460 + doe \div 36524 - doe \div 146096) \div 365
      doy == doe - (365 * yoe + yoe \div 4 - yoe \div 100)
      mp == (5 * doy + 2) \div 153
      d == doy - (153 * mp + 2) \div 5 + 1
      m == IF mp < 10 THEN mp + 3 ELSE mp - 9
  IN  [year |-> yoe + era * 400 + (IF m <= 2 THEN 1 ELSE 0), month |-> m, day |-> d]

\* day number of (year, month, day)
DaysFromCivil(y0, m, d) ==
  LET y == IF m <= 2 THEN y0 - 1 ELSE y0
      era == y \div 400
      yoe == y - era * 400
      doy == (153 * (IF m > 2 THEN m - 3 ELSE m + 9) + 2) \div 5 + d - 1
      doe == yoe * 365 + yoe \div 4 - yoe \div 100 + doy
  IN  era * 146097 + doe - 719468

Pad2(n) == IF n < 10 THEN <<"0">> \o NumberToString(n) ELSE NumberToString(n)

\* new Date(seconds * 1000).toISOString().slice(0, 10)
IsoDateOf(seconds) ==
  LET c == CivilFromDays(seconds \div SecondsPerDay)
  IN  NumberToString(c.year) \o <<"-">> \o Pad2(c.month) \o <<"-">> \o Pad2(c.day)

\* new Date(seconds * 1000).getFullYear() in UTC
FullYearOf(seconds) == CivilFromDays(seconds \div SecondsPerDay).year

(***************************************************************************)
(* functions/src/resume.ts: the resume page renderer.  The page is the     *)
(* record of the strings the template interpolates; the literal markup     *)
(* between them is fixed.  A Japanese literal is one opaque character.     *)
(***************************************************************************)
footerCopy(site, language, now) ==
  LET custom == pick(Coalesce(Field(site, "footerNote"), Field(site, "footer_note")))
  IN  IF custom # <<>> THEN custom
      ELSE <<"(c)", " ">> \o NumberToString(FullYearOf(now)) \o <<" ">>
             \o personName(site, language)

\* JSON.stringify of a string
JsonString(value) ==
  LET JsonChar(c) ==
        CASE c = "\"" -> <<"\\", "\"">>
          [] c = "\\" -> <<"\\", "\\">>
          [] c = "\n" -> <<"\\", "n">>
          [] c = "\t" -> <<"\\", "t">>
          [] OTHER -> <<c>>
  IN  <<"\"">> \o Concat([i \in 1..Len(value) |-> JsonChar(value[i])]) \o <<"\"">>

S_resumePath == <<"/","r","e","s","u","m","e">>
S_resumePdfPath == <<"/","r","e","s","u","m","e",".","p","d","f">>
S_langEnQuery == <<"?","l","a","n","g","=","e","n">>
S_langJaQuery == <<"?","l","a","n","g","=","j","a">>
S_Resume == <<"R","e","s","u","m","e">>
S_titleSep == <<" ", "|", " ">>

RenderSection(section) ==
  [id |-> escapeHtml(section.id),
   heading |-> IF section.title # <<>> THEN <<escapeHtml(section.title)>> ELSE <<>>,
   items |-> [i \in 1..Len(section.items) |-> escapeHtml(section.items[i])]]

\* the page saying "being prepared" whenever there is no summary
HasContent_SummaryOnly(summary, sections) == Len(summary) > 0

\* const hasContent = summary.length > 0 || sections.length > 0
HasContent(summary, sections) == Len(summary) > 0 \/ Len(sections) > 0

\* the markup inside <section class="content">, one element after the other
ContentArea(summary, sections, neutral) ==
  IF HasContent(summary, sections)
  THEN [i \in 1..Len(summary) |-> [tag |-> "article", p |-> escapeHtml(summary[i])]]
         \o [i \in 1..Len(sections) |->
               [tag |-> "section", section |-> RenderSection(sections[i])]]
  ELSE <<[tag |-> "empty", p |-> escapeHtml(neutral)]>>

\* a page offering the PDF whether or not one is configured
PdfAnchor_Always(pdfUrl, pdfLink, downloadLabel) ==
  <<[href |-> escapeHtml(pdfLink), label |-> escapeHtml(downloadLabel)]>>

\* ${pdfUrl ? `<a href="${escapeHtml(pdfLink)}">...</a>` : ''}
PdfAnchor(pdfUrl, pdfLink, downloadLabel) ==
  IF pdfUrl.t # "null" /\ pdfUrl.v # <<>>
  THEN <<[href |-> escapeHtml(pdfLink), label |-> escapeHtml(downloadLabel)]>>
  ELSE <<>>

resumeHtml(props) ==
  LET baseUrl == props.baseUrl
      language == props.language
      pdfUrl == props.pdfUrl
      updatedAt == props.updatedAt
      eta == props.eta
      summary == props.summary
      sections == props.sections
      displayName == props.displayName
      sameAsLinks == props.sameAsLinks
      footerText == props.footerText
      title == IF language = "ja" THEN <<"{ja:Resume}">> ELSE S_Resume
      subtitle == IF language = "ja" THEN <<"{ja:Experience, skills, and impact}">>
                  ELSE <<"{en:Experience, skills, and impact}">>
      description == IF language = "ja"
                     THEN displayName \o <<"{ja:'s resume page.}">>
                     ELSE displayName \o <<"'", "s", "{en: resume page.}">>
      downloadLabel == IF language = "ja" THEN <<"{ja:Open resume PDF}">>
                       ELSE <<"{en:Open resume PDF}">>
      neutral == IF language = "ja"
                 THEN <<"{ja:Resume data is currently being prepared.}">>
                 ELSE <<"{en:Resume data is currently being prepared.}">>
      updatedLabel == IF language = "ja" THEN <<"{ja:Updated}">> ELSE <<"{en:Updated}">>
      etaLabel == IF language = "ja" THEN <<"{ja:Target publish date}">>
                  ELSE <<"{en:Target publish date}">>
      leadText == IF language = "ja"
                  THEN displayName \o <<"{ja:lead}">>
                  ELSE <<"{en:This page covers }">> \o displayName
                         \o <<"'", "s", "{en: experience}">>
      pdfLink == S_resumePdfPath \o (IF language = "ja" THEN S_langJaQuery ELSE <<>>)
      englishPath == S_resumePath \o S_langEnQuery
      japanesePath == S_resumePath \o S_langJaQuery
      metadata ==
        (IF updatedAt # <<>>
         THEN <<escapeHtml(updatedLabel) \o <<":", " ">> \o escapeHtml(updatedAt)>>
         ELSE <<>>)
        \o (IF eta # <<>>
            THEN <<escapeHtml(etaLabel) \o <<":", " ">> \o escapeHtml(eta)>>
            ELSE <<>>)
      structuredData ==
        [name |-> JsonString(title \o S_titleSep \o displayName),
         url |-> JsonString(baseUrl \o S_resumePath),
         isPartOf |-> JsonString(baseUrl),
         inLanguage |-> language,
         personName |-> JsonString(displayName),
         sameAs |-> [i \in 1..Len(sameAsLinks) |-> JsonString(sameAsLinks[i].url)]]
  IN  [kind |-> "html",
       htmlLang |-> language,
       title |-> escapeHtml(title) \o S_titleSep \o escapeHtml(displayName),
       description |-> escapeHtml(description),
       ogTitle |-> escapeHtml(title \o S_titleSep \o displayName),
       ogUrl |-> escapeHtml(baseUrl \o S_resumePath),
       canonical |-> escapeHtml(baseUrl \o S_resumePath),
       alternateEn |-> escapeHtml(baseUrl \o englishPath),
       alternateJa |-> escapeHtml(baseUrl \o japanesePath),
       alternateDefault |-> escapeHtml(baseUrl \o S_resumePath),
       alternatePdf |-> escapeHtml(baseUrl \o S_resumePdfPath),
       structuredData |-> structuredData,
       brandHref |-> escapeHtml(baseUrl),
       brandName |-> escapeHtml(displayName),
       heading |-> escapeHtml(title),
       subtitle |-> escapeHtml(subtitle),
       lead |-> escapeHtml(leadText),
       metadata |-> metadata,
       languageLinks |-> <<escapeHtml(englishPath), escapeHtml(japanesePath)>>,
       pdfAnchor |-> PdfAnchor(pdfUrl, pdfLink, downloadLabel),
       profiles |-> [i \in 1..Len(sameAsLinks) |->
                       [href |-> escapeHtml(sameAsLinks[i].url),
                        label |-> escapeHtml(sameAsLinks[i].label)]],
       content |-> ContentArea(summary, sections, neutral),
       footer |-> escapeHtml(footerText)]

(***************************************************************************)
(* The express response object                                             *)
(***************************************************************************)
NewResponse ==
  [headers |-> [n \in {"Content-Type", "Cache-Control", "Vary"} |-> ""],
   location |-> Null,
   status |-> 0,
   sent |-> 0,
   body |-> [kind |-> "none"]]

\* res.setHeader(name, value)
SetHeader(r, name, value) == [r EXCEPT !.headers[name] = value]

\* res.status(code)
SetStatus(r, code) == [r EXCEPT !.status = code]

\* res.send(body)
Send(r, body) == [r EXCEPT !.sent = @ + 1, !.body = body]

\* res.redirect(code, url)
Redirect(r, code, url) ==
  [r EXCEPT !.location = Str(url), !.status = code, !.sent = @ + 1,
            !.body = [kind |-> "redirect"]]

TextBody(message) == [kind |-> "text", text |-> message]

CT_Html == "text/html; charset=utf-8"
CT_Plain == "text/plain; charset=utf-8"
CT_Xml == "application/xml"
CC_Resume == "public, max-age=300"
CC_Sitemap == "public, max-age=3600"

MSG_HtmlFailure == "Unable to load resume page right now."
MSG_PdfFailure == "Unable to load resume PDF right now."
MSG_PdfNotConfigured == "Resume PDF is not configured."
MSG_SitemapFailure == "Unable to generate sitemap right now."

(***************************************************************************)
(* functions/src/resume.ts: the two resume handlers, from the point where  *)
(* the awaited reads have settled.  request.language was computed by       *)
(* normalizeLanguage before the try block.                                 *)
(***************************************************************************)
\* a catch block that leaves the Content-Type as it finds it
ResumeHtmlCatch_KeepsType(r) ==
  Send(SetStatus(r, 500), TextBody(MSG_HtmlFailure))

\* the catch block of resumeHtmlHandler
ResumeHtmlCatch(r) ==
  Send(SetStatus(SetHeader(r, "Content-Type", CT_Plain), 500),
       TextBody(MSG_HtmlFailure))

\* the try block of resumeHtmlHandler after the await
ResumeHtmlSend(r, props) ==
  Send(SetStatus(SetHeader(SetHeader(SetHeader(r, "Content-Type", CT_Html),
                                     "Cache-Control", CC_Resume),
                           "Vary", "Accept-Language"), 200),
       resumeHtml(props))

\* the page offering the PDF of the requested language only
ResumeHtmlRender_OwnLanguagePdf(r, request, baseUrl, doc, site, sections) ==
  IF sections.threw THEN [threw |-> TRUE, res |-> r]
  ELSE [threw |-> FALSE,
        res |-> ResumeHtmlSend(r,
          [baseUrl |-> baseUrl,
           language |-> request.language,
           pdfUrl |-> safeUrl(ResumeUrlField(doc, request.language)),
           updatedAt |-> pick(Coalesce(Field(doc, "updatedAt"),
                                       Field(doc, "updated_at"))),
           eta |-> pick(Coalesce(Field(doc, "ja_eta"),
                          Coalesce(Field(doc, "eta_ja"), Field(doc, "jaTargetDate")))),
           summary |-> summaryParagraphs(doc, request.language),
           sections |-> sections.value,
           displayName |-> personName(site, request.language),
           sameAsLinks |-> profileLinks(site),
           footerText |-> footerCopy(site, request.language, request.now)])]

\* the try block once normalizeSections has returned or raised
ResumeHtmlRender(r, request, baseUrl, doc, site, sections) ==
  IF sections.threw THEN [threw |-> TRUE, res |-> r]
  ELSE [threw |-> FALSE,
        res |-> ResumeHtmlSend(r,
          [baseUrl |-> baseUrl,
           language |-> request.language,
           pdfUrl |-> preferredResumeUrl(doc, request.language),
           updatedAt |-> pick(Coalesce(Field(doc, "updatedAt"),
                                       Field(doc, "updated_at"))),
           eta |-> pick(Coalesce(Field(doc, "ja_eta"),
                          Coalesce(Field(doc, "eta_ja"), Field(doc, "jaTargetDate")))),
           summary |-> summaryParagraphs(doc, request.language),
           sections |-> sections.value,
           displayName |-> personName(site, request.language),
           sameAsLinks |-> profileLinks(site),
           footerText |-> footerCopy(site, request.language, request.now)])]

ResumeHtmlLoaded(r, request, baseUrl, doc, site) ==
  ResumeHtmlRender(r, request, baseUrl, doc, site,
                   normalizeSections(doc, request.language))

\* the handler treating a missing resume document as an error
ResumeHtmlTry_RequiresResume(r, request, siteUrlEnv, resumeSnap, siteSnap) ==
  IF ~resumeSnap.exists THEN [threw |-> TRUE, res |-> r]
  ELSE ResumeHtmlLoaded(r, request, resolveSiteUrl(request, siteUrlEnv),
                        loadResumeDoc(resumeSnap), loadSiteDoc(siteSnap))

ResumeHtmlTry(r, request, siteUrlEnv, resumeSnap, siteSnap) ==
  ResumeHtmlLoaded(r, request, resolveSiteUrl(request, siteUrlEnv),
                   loadResumeDoc(resumeSnap), loadSiteDoc(siteSnap))

\* the handler setting its success headers before the projections run
ResumeHtmlSettle_HeadersFirst(attempt) ==
  IF attempt.threw
  THEN ResumeHtmlCatch(SetHeader(SetHeader(attempt.res, "Cache-Control", CC_Resume),
                                 "Vary", "Accept-Language"))
  ELSE attempt.res

\* resumeHtmlHandler once both reads succeeded
ResumeHtmlSettle(attempt) ==
  IF attempt.threw THEN ResumeHtmlCatch(attempt.res) ELSE attempt.res

ResumeHtmlRespond(r, request, siteUrlEnv, resumeSnap, siteSnap) ==
  ResumeHtmlSettle(ResumeHtmlTry(r, request, siteUrlEnv, resumeSnap, siteSnap))

\* the catch block of resumePdfHandler
ResumePdfCatch(r) ==
  Send(SetStatus(SetHeader(r, "Content-Type", CT_Plain), 500),
       TextBody(MSG_PdfFailure))

\* the not-configured branch without its return: the redirect follows the 404
ResumePdfAnswer_NoReturn(r, url) ==
  IF url.t = "null" \/ url.v = <<>>
  THEN Redirect(SetHeader(Send(SetStatus(SetHeader(r, "Content-Type", CT_Plain), 404),
                               TextBody(MSG_PdfNotConfigured)),
                          "Cache-Control", CC_Resume), 302, <<>>)
  ELSE Redirect(SetHeader(r, "Cache-Control", CC_Resume), 302, url.v)

\* if (!url) ... 404, else the redirect
ResumePdfAnswer(r, url) ==
  IF url.t = "null" \/ url.v = <<>>
  THEN Send(SetStatus(SetHeader(r, "Content-Type", CT_Plain), 404),
            TextBody(MSG_PdfNotConfigured))
  ELSE Redirect(SetHeader(r, "Cache-Control", CC_Resume), 302, url.v)

\* resumePdfHandler consulting only the field of the requested language
ResumePdfRespond_NoFallback(r, request, resumeSnap) ==
  ResumePdfAnswer(r, safeUrl(pick(Field(loadResumeDoc(resumeSnap),
                                        IF request.language = "ja"
                                        THEN "url_ja" ELSE "url_en"))))

\* resumePdfHandler once the read succeeded
ResumePdfRespond(r, request, resumeSnap) ==
  ResumePdfAnswer(r, preferredResumeUrl(loadResumeDoc(resumeSnap), request.language))

(***************************************************************************)
(* The sitemap handler and its helpers                                     *)
(***************************************************************************)
\* Stands for every finite number beyond the range of Date (8.64e15 ms):
\* new Date(n) is then an Invalid Date and toISOString raises a RangeError.
HugeNumber == 2147483647

IsDigits(s) == \A k \in 1..Len(s) : s[k] \in Digits

DaysInMonth(y, m) ==
  IF m = 2
  THEN (IF (y % 4 = 0 /\ y % 100 # 0) \/ y % 400 = 0 THEN 29 ELSE 28)
  ELSE IF m \in {4, 6, 9, 11} THEN 30 ELSE 31

\* new Date(text).getTime() in seconds, or "NaN".  The modelled date strings
\* are calendar dates YYYY-MM-DD (read as UTC midnight) and the instants
\* YYYY-MM-DDTHH:MM:SSZ; every other modelled string is not a date.
ParseDateString(text) ==
  LET y == DecimalValue(SubSeq(text, 1, 4), 0)
      m == DecimalValue(SubSeq(text, 6, 7), 0)
      d == DecimalValue(SubSeq(text, 9, 10), 0)
      hh == DecimalValue(SubSeq(text, 12, 13), 0)
      mm == DecimalValue(SubSeq(text, 15, 16), 0)
      ss == DecimalValue(SubSeq(text, 18, 19), 0)
      dateOk == /\ Len(text) >= 10
                /\ text[5] = "-" /\ text[8] = "-"
                /\ IsDigits(SubSeq(text, 1, 4))
                /\ IsDigits(SubSeq(text, 6, 7))
                /\ IsDigits(SubSeq(text, 9, 10))
                /\ y \in 1970..2037 /\ m \in 1..12 /\ d \in 1..DaysInMonth(y, m)
      timeOk == /\ Len(text) = 20
                /\ text[11] = "T" /\ text[14] = ":" /\ text[17] = ":" /\ text[20] = "Z"
                /\ IsDigits(SubSeq(text, 12, 13))
                /\ IsDigits(SubSeq(text, 15, 16))
                /\ IsDigits(SubSeq(text, 18, 19))
                /\ hh \in 0..23 /\ mm \in 0..59 /\ ss \in 0..59
  IN  IF dateOk /\ Len(text) = 10
      THEN [nan |-> FALSE, seconds |-> DaysFromCivil(y, m, d) * SecondsPerDay]
      ELSE IF dateOk /\ timeOk
      THEN [nan |-> FALSE,
            seconds |-> DaysFromCivil(y, m, d) * SecondsPerDay
                          + hh * 3600 + mm * 60 + ss]
      ELSE [nan |-> TRUE]

\* number | null, in seconds; NoTime is null
NoTime == [none |-> TRUE]
SomeTime(seconds) == [none |-> FALSE, seconds |-> seconds]

SecondsOf(parsed) == IF parsed.nan THEN NoTime ELSE SomeTime(parsed.seconds)

dateMs(value) ==
  IF \/ value.t \in {"undefined", "null"}
     \/ (value.t = "string" /\ value.v = <<>>)
     \/ (value.t = "number" /\ value.n = 0)
  THEN NoTime
  ELSE IF value.t = "number" THEN SomeTime(value.n)
  ELSE IF value.t = "timestamp" THEN SomeTime(value.seconds)
  ELSE SecondsOf(ParseDateString(pick(value)))

\* Math.max over a non-empty set of numbers
MaxOf(ns) == CHOOSE n \in ns : \A other \in ns : other <= n

\* string | null; raises when the latest value is not a representable date
IsoDateOfLatest(latest) ==
  IF latest = HugeNumber THEN Thrown ELSE Returned(Str(IsoDateOf(latest)))

LatestOf(times) ==
  IF \A i \in 1..Len(times) : times[i].none THEN Returned(Null)
  ELSE IsoDateOfLatest(
         MaxOf({times[i].seconds : i \in {k \in 1..Len(times) : ~times[k].none}}))

DateMsAll(values) == [i \in 1..Len(values) |-> dateMs(values[i])]

latestIsoDate(values) == LatestOf(DateMsAll(values))

\* a document snapshot of the projects query or of a public document:
\* updateTime and createTime are Timestamps of an existing document and
\* undefined otherwise
snapshotLastmod(snapshot, fields) ==
  latestIsoDate(<<snapshot.updateTime, snapshot.createTime>>
                  \o [i \in 1..Len(fields) |-> Field(snapshot.data, fields[i])])

docLastmod(snapshot, fields) ==
  IF ~snapshot.exists THEN Returned(Null) ELSE snapshotLastmod(snapshot, fields)

\* the UTF-16 code unit order on the characters of an ISO date
DateCharCode(c) == IF c = "-" THEN 45 ELSE IF c = "+" THEN 43 ELSE 48 + DigitVal(c)

\* a > b on strings
RECURSIVE StringGreater(_, _)
StringGreater(a, b) ==
  IF a = <<>> THEN FALSE
  ELSE IF b = <<>> THEN TRUE
  ELSE IF DateCharCode(Head(a)) # DateCharCode(Head(b))
    THEN DateCharCode(Head(a)) > DateCharCode(Head(b))
  ELSE StringGreater(Tail(a), Tail(b))

\* values are strings or null
RECURSIVE MaxDateFrom(_, _)
MaxDateFrom(latest, values) ==
  IF values = <<>> THEN latest
  ELSE LET value == Head(values)
       IN  IF value.t = "string" /\ value.v # <<>> /\ StringGreater(value.v, latest)
           THEN MaxDateFrom(value.v, Tail(values))
           ELSE MaxDateFrom(latest, Tail(values))

maxDate(fallbackDate, values) == OrElse(MaxDateFrom(<<>>, values), fallbackDate)

absoluteHttpUrl(value) ==
  IF pick(value) = <<>> THEN Null ELSE SafeUrlOf(ParseUrl(pick(value)))

escapeXml(value) ==
  LET EscapeXmlChar(c) ==
        CASE c = "&" -> <<"&","a","m","p",";">>
          [] c = "<" -> <<"&","l","t",";">>
          [] c = ">" -> <<"&","g","t",";">>
          [] c = "\"" -> <<"&","q","u","o","t",";">>
          [] c = "'" -> <<"&","a","p","o","s",";">>
          [] OTHER -> <<c>>
  IN  Concat([i \in 1..Len(value) |-> EscapeXmlChar(value[i])])

\* encodeURIComponent on the modelled characters
encodeURIComponent(value) ==
  LET EncodeComponentChar(c) ==
        CASE c = " " -> <<"%","2","0">>
          [] c = "\"" -> <<"%","2","2">>
          [] c = "&" -> <<"%","2","6">>
          [] c = "+" -> <<"%","2","B">>
          [] c = "," -> <<"%","2","C">>
          [] c = "/" -> <<"%","2","F">>
          [] c = ":" -> <<"%","3","A">>
          [] c = "<" -> <<"%","3","C">>
          [] c = ">" -> <<"%","3","E">>
          [] c = "|" -> <<"%","7","C">>
          [] OTHER -> <<c>>
  IN  Concat([i \in 1..Len(value) |-> EncodeComponentChar(value[i])])

\* Number(data.order ?? 0): a number, or "NaN" for what is not numeric
OrderOf(data) ==
  LET raw == Field(data, "order")
  IN  IF raw.t \in {"undefined", "null"} THEN [nan |-> FALSE, n |-> 0]
      ELSE IF raw.t = "number" THEN [nan |-> FALSE, n |-> raw.n]
      ELSE [nan |-> TRUE]

CollationOrder ==
  <<"0","1","2","3","4","5","6","7","8","9",
    "a","b","c","d","e","f","g","h","i","j","k","l","m",
    "n","o","p","q","r","s","t","u","v","w","x","y","z">>

CollationRank(c) == CHOOSE i \in 1..Len(CollationOrder) : CollationOrder[i] = c

\* String.prototype.localeCompare on document ids of lower-case letters and
\* digits: negative, zero or positive
RECURSIVE localeCompare(_, _)
localeCompare(a, b) ==
  IF a = <<>> /\ b = <<>> THEN 0
  ELSE IF a = <<>> THEN -1
  ELSE IF b = <<>> THEN 1
  ELSE IF Head(a) # Head(b) THEN CollationRank(Head(a)) - CollationRank(Head(b))
  ELSE localeCompare(Tail(a), Tail(b))

\* the comparator of the sort in loadProjectItems
CompareProjects(left, right) ==
  IF ~left.order.nan /\ ~right.order.nan /\ left.order.n # right.order.n
  THEN left.order.n - right.order.n
  ELSE localeCompare(left.id, right.id)

\* Array.prototype.sort (stable) as an insertion sort
RECURSIVE InsertSorted(_, _)
InsertSorted(sorted, entry) ==
  IF sorted = <<>> THEN <<entry>>
  ELSE IF CompareProjects(entry, Head(sorted)) < 0 THEN <<entry>> \o sorted
  ELSE <<Head(sorted)>> \o InsertSorted(Tail(sorted), entry)

RECURSIVE SortProjects(_)
SortProjects(entries) ==
  IF entries = <<>> THEN <<>>
  ELSE InsertSorted(SortProjects(SubSeq(entries, 1, Len(entries) - 1)),
                    entries[Len(entries)])

S_projectsPath == <<"/","p","r","o","j","e","c","t","s">>
S_aboutPath == <<"/","a","b","o","u","t">>
S_contactPath == <<"/","c","o","n","t","a","c","t">>

ProjectTimeFields ==
  <<"updatedAt", "updated_at", "github_synced_at", "github_updated_at",
    "github_pushed_at", "pushed_at", "createdAt", "created_at">>

UpdatedFields == <<"updatedAt", "updated_at">>

ResumeTimeFields == <<"updatedAt", "updated_at", "ja_eta", "eta_ja", "jaTargetDate">>

\* the map callback of loadProjectItems for one query document
ProjectItem(base, fallbackDate, doc, lastmod, image) ==
  [id |-> doc.id,
   order |-> OrderOf(doc.data),
   item |-> [loc |-> base \o S_projectsPath \o <<"/">> \o encodeURIComponent(doc.id),
             lastmod |-> IF lastmod.t = "null" THEN fallbackDate ELSE lastmod.v,
             alternates |-> <<>>,
             images |-> IF image.t = "null" THEN <<>> ELSE <<image.v>>]]

ProjectEntry(base, fallbackDate, doc) ==
  ProjectItem(base, fallbackDate, doc,
              snapshotLastmod(doc, ProjectTimeFields).value,
              absoluteHttpUrl(
                Coalesce(Field(doc.data, "cover"),
                  Coalesce(Field(doc.data, "image"), Field(doc.data, "thumbnail")))))

\* loadProjectItems once the query has returned docs; raises when the
\* lastmod of a document raises
ProjectItemsOf(fallbackDate, items) ==
  [items |-> [i \in 1..Len(items) |-> items[i].item],
   lastmod |-> maxDate(fallbackDate,
                 [i \in 1..Len(items) |-> Str(items[i].item.lastmod)])]

ProjectLastmodRaises(docs) ==
  \E i \in 1..Len(docs) : snapshotLastmod(docs[i], ProjectTimeFields).threw

loadProjectItems(base, fallbackDate, docs) ==
  IF ProjectLastmodRaises(docs) THEN Thrown
  ELSE Returned(
         ProjectItemsOf(fallbackDate,
           SortProjects([i \in 1..Len(docs) |->
                           ProjectEntry(base, fallbackDate, docs[i])])))

StaticItem(loc, lastmod) ==
  [loc |-> loc, lastmod |-> lastmod, alternates |-> <<>>, images |-> <<>>]

\* buildStaticItems; docs maps site, home, about, contact, resume to snapshots
StaticItemsOf(base, fallbackDate, site, home, about, contact, resume, projectsLastmod) ==
  IF site.threw \/ home.threw \/ about.threw \/ contact.threw \/ resume.threw
  THEN Thrown
  ELSE Returned(
    << StaticItem(base \o <<"/">>, maxDate(fallbackDate, <<site.value, home.value>>)),
       StaticItem(base \o S_aboutPath,
                  maxDate(fallbackDate, <<site.value, about.value>>)),
       StaticItem(base \o S_projectsPath,
                  maxDate(fallbackDate, <<site.value, Str(projectsLastmod)>>)),
       StaticItem(base \o S_contactPath,
                  maxDate(fallbackDate, <<site.value, contact.value>>)),
       [loc |-> base \o S_resumePath,
        lastmod |-> maxDate(fallbackDate, <<site.value, resume.value>>),
        alternates |->
          << [hreflang |-> "en", href |-> base \o S_resumePath \o S_langEnQuery],
             [hreflang |-> "ja", href |-> base \o S_resumePath \o S_langJaQuery],
             [hreflang |-> "x-default", href |-> base \o S_resumePath] >>,
        images |-> <<>>],
       StaticItem(base \o S_resumePdfPath,
                  maxDate(fallbackDate, <<site.value, resume.value>>)) >>)

buildStaticItems(base, fallbackDate, docs, projectsLastmod) ==
  StaticItemsOf(base, fallbackDate,
                docLastmod(docs.site, UpdatedFields),
                docLastmod(docs.home, UpdatedFields),
                docLastmod(docs.about, UpdatedFields),
                docLastmod(docs.contact, UpdatedFields),
                docLastmod(docs.resume, ResumeTimeFields),
                projectsLastmod)

\* the escaped strings renderItem interpolates for one <url> element
renderItem(item) ==
  [loc |-> escapeXml(item.loc),
   lastmod |-> escapeXml(item.lastmod),
   alternates |-> [i \in 1..Len(item.alternates) |->
                     [hreflang |-> item.alternates[i].hreflang,
                      href |-> escapeXml(item.alternates[i].href)]],
   images |-> [i \in 1..Len(item.images) |-> escapeXml(item.images[i])]]

\* a catch block sending the sitemap built so far
SitemapCatch_Partial(r) ==
  Send(SetStatus(SetHeader(r, "Content-Type", CT_Xml), 200),
       [kind |-> "xml", items |-> <<>>])

\* the catch block of sitemapHandler
SitemapCatch(r) ==
  Send(SetStatus(SetHeader(r, "Content-Type", CT_Plain), 500),
       TextBody(MSG_SitemapFailure))

\* sitemapHandler once loadPublicDocs and loadProjectItems have resolved
SitemapSend(r, allItems) ==
  Send(SetStatus(SetHeader(SetHeader(r, "Content-Type", CT_Xml),
                           "Cache-Control", CC_Sitemap), 200),
       [kind |-> "xml",
        items |-> [i \in 1..Len(allItems) |-> renderItem(allItems[i])]])

\* the sitemap of the static routes alone
SitemapRender_StaticOnly(r, staticItems, projectItems) ==
  IF staticItems.threw THEN SitemapCatch(r)
  ELSE SitemapSend(r, staticItems.value)

SitemapRender(r, staticItems, projectItems) ==
  IF staticItems.threw THEN SitemapCatch(r)
  ELSE SitemapSend(r, staticItems.value \o projectItems)

SitemapBuild(r, base, today, docs, projectState) ==
  IF projectState.threw THEN SitemapCatch(r)
  ELSE SitemapRender(r,
         buildStaticItems(base, today, docs, projectState.value.lastmod),
         projectState.value.items)

SitemapLoad(r, base, today, docs, projectDocs) ==
  SitemapBuild(r, base, today, docs, loadProjectItems(base, today, projectDocs))

SitemapRespond(r, request, siteUrlEnv, docs, projectDocs) ==
  SitemapLoad(r, resolveSiteUrl(request, siteUrlEnv), IsoDateOf(request.now),
              docs, projectDocs)

(***************************************************************************)
(* The system: storage written by the admin panel, one request in flight,  *)
(* its outstanding reads and its response.  A handler runs from an I/O     *)
(* completion to its next await without interruption, so the continuation  *)
(* after Promise.all is part of the step that settles the last read, and   *)
(* the catch block is part of the step in which a read fails.              *)
(***************************************************************************)
VARIABLES
  store,       \* the documents public/* and the projects collection
  siteUrlEnv,  \* process.env.SITE_URL
  clock,       \* the current instant, in seconds
  writes,      \* number of admin writes so far
  req,         \* the request in flight, NoRequest when idle
  reads,       \* the reads of the request in flight, by document
  res,         \* the response object of the request in flight
  pin,         \* the input of a function applied in isolation
  pout,        \* its result
  client       \* the LanguageProvider of one browser tab and its localStorage

vars == <<store, siteUrlEnv, clock, writes, req, reads, res, pin, pout, client>>

MaxWrites == 1
MaxClockSteps == 1

\* midnight UTC of three days
T_jan == DaysFromCivil(2024, 1, 1) * SecondsPerDay
T_jun == DaysFromCivil(2024, 6, 1) * SecondsPerDay
T_start == DaysFromCivil(2024, 7, 1) * SecondsPerDay

D_jan == <<"2","0","2","4","-","0","1","-","0","1">>
D_jun == <<"2","0","2","4","-","0","6","-","0","1">>
D_junInstant == <<"2","0","2","4","-","0","6","-","0","1","T","1","0",":","0","0",":","0","0","Z">>
T_soon == <<"s","o","o","n">>
T_mixedLinks == <<"G","H","|","g","i","t","h","u","b",".","c","o","m","/","x",","," ","n","o","t"," ","a"," ","u","r","l",","," ","b","l","o","g",".","i","o">>
ID_alpha == <<"a","l","p","h","a">>
ID_beta == <<"b","e","t","a">>

NoRequest == [handler |-> "none"]
\* no browser tab is modelled
NoClient == [phase |-> "none"]
NoInput == [fn |-> "none"]
NoOutput == [done |-> FALSE]

PublicDocs == {"site", "home", "about", "contact", "resume"}

\* the storage reads each handler issues before its first await
ReadsOf(handler) ==
  CASE handler = "resumeHtml" -> {"resume", "site"}
    [] handler = "resumePdf" -> {"resume"}
    [] handler = "sitemap" -> PublicDocs \cup {"projects"}

Pending == [st |-> "pending"]
ReadOk(snapshot) == [st |-> "ok", snapshot |-> snapshot]
ReadFailed(error) == [st |-> "failed", error |-> error]
\* Promise.all has rejected: the outcome of this read is ignored
Discarded == [st |-> "discarded"]

ReadErrors == {"unavailable", "permission-denied"}

ProjectDoc(id, fields, created, updated) ==
  [id |-> id, exists |-> TRUE, data |-> Obj(fields),
   updateTime |-> Timestamp(updated), createTime |-> Timestamp(created)]

SectionExperience ==
  Obj([id |-> Str(<<"e","x","p">>), title_en |-> Str(T_experience),
       items_en |-> Arr(<<Str(T_roleA)>>)])

SectionJapaneseOnly == Obj([title_ja |-> Str(T_shokureki)])

\* nothing has been stored yet
StoreEmpty ==
  [site |-> Absent, home |-> Absent, about |-> Absent, contact |-> Absent,
   resume |-> Absent, projects |-> <<>>]

\* a site filled in through the admin panel
StoreTypical ==
  [site |-> Present([name |-> Str(T_name), githubUrl |-> Str(U_github),
                     sameAs |-> Arr(<<Str(U_githubUpper), Str(U_blogBare)>>)],
                    T_jan, T_jan),
   home |-> Present([blurb |-> Str(T_roleA)], T_jan, T_jun),
   about |-> Absent,
   contact |-> Present([updatedAt |-> Str(D_jun)], T_jan, T_jan),
   resume |-> Present([url_en |-> Str(U_cdnEn), summary |-> Str(T_summary),
                       sections |-> Arr(<<SectionExperience>>),
                       updatedAt |-> Str(D_jun)], T_jan, T_jan),
   projects |-> << ProjectDoc(ID_alpha,
                     [order |-> Num(2), updatedAt |-> Str(D_jan),
                      github_pushed_at |-> Str(D_junInstant),
                      cover |-> Str(U_cdnEn)], T_jan, T_jan),
                   ProjectDoc(ID_beta, [order |-> Num(1)], T_jan, T_jun) >>]

\* documents edited by hand: wrong types, a null section, unusable URLs
StoreMalformed ==
  [site |-> Present([name_ja |-> Str(T_shokureki), github_url |-> Null,
                     sameAs |-> Str(T_mixedLinks)], T_jan, T_jan),
   home |-> Absent,
   about |-> Present([updatedAt |-> Str(T_soon)], T_jan, T_jan),
   contact |-> Absent,
   resume |-> Present([url_en |-> Str(U_notUrl), url_ja |-> Str(U_cdnJa),
                       summary_en |-> Num(5),
                       sections |-> Arr(<<Null, SectionJapaneseOnly>>)],
                      T_jan, T_jan),
   projects |-> << ProjectDoc(ID_alpha, [updatedAt |-> Num(HugeNumber)],
                              T_jan, T_jan) >>]

\* a resume whose only PDF URL was typed without a scheme
StoreBareUrl ==
  [StoreEmpty EXCEPT !.resume = Present([url |-> Str(U_bare),
                                         ja_eta |-> Str(T_soon)], T_jan, T_jan)]

\* the deployments: what is stored and the SITE_URL the functions run with
Deployments ==
  { [store |-> StoreEmpty, siteUrlEnv |-> Undef],
    [store |-> StoreTypical, siteUrlEnv |-> Str(U_siteWww)],
    [store |-> StoreMalformed, siteUrlEnv |-> Str(H_placeholder)],
    [store |-> StoreBareUrl, siteUrlEnv |-> Undef] }

LangQueries == {Undef, Str(S_ja), Str(<<"E","N">>)}

NoHeaders == [n \in {} |-> Undef]

RequestHeaders ==
  { NoHeaders,
    [n \in {"host", "accept-language"} |->
       IF n = "host" THEN Str(H_rosenau) ELSE Str(S_ja)] }

Handlers == {"resumeHtml", "resumePdf", "sitemap"}

Idle ==
  /\ req = NoRequest
  /\ reads = [r \in {} |-> Pending]
  /\ res = NewResponse

Init ==
  /\ \E d \in Deployments : store = d.store /\ siteUrlEnv = d.siteUrlEnv
  /\ clock = T_start
  /\ client = NoClient
  /\ writes = 0
  /\ Idle
  /\ pin = NoInput
  /\ pout = NoOutput

\* a day passes
Advance ==
  /\ clock < T_start + MaxClockSteps * SecondsPerDay
  /\ clock' = clock + SecondsPerDay
  /\ UNCHANGED <<store, siteUrlEnv, writes, req, reads, res, pin, pout, client>>

\* a setDoc(..., { merge: true }) of the admin panel on a public document
AdminMerge(name, fields) ==
  /\ writes < MaxWrites
  /\ writes' = writes + 1
  /\ store' = [store EXCEPT ![name] = MergeDoc(@, fields, clock)]
  /\ UNCHANGED <<siteUrlEnv, clock, req, reads, res, pin, pout, client>>

\* AdminResume.handleUpload
handleUpload ==
  \E lang \in Languages :
    AdminMerge("resume",
      IF lang = "en" THEN [url_en |-> Str(U_cdnNew)] ELSE [url_ja |-> Str(U_cdnNew)])

\* AdminResume.saveSummary
saveSummary ==
  AdminMerge("resume",
    [summary_en |-> Str(T_roleA), summary_ja |-> Str(<<>>), summary |-> Str(T_roleA)])

\* AdminResume.saveSections
saveSections ==
  AdminMerge("resume",
    [sections |-> Arr(<< Obj([id |-> Str(<<"s">>),
                              title_en |-> Str(<<>>), title_ja |-> Str(T_shokureki),
                              title |-> Str(<<>>),
                              items_en |-> Arr(<<>>), items_ja |-> Arr(<<>>),
                              items |-> Arr(<<>>)]) >>)])

\* AdminHome.saveProfiles
saveProfiles ==
  AdminMerge("site", [github_url |-> Str(U_github), linkedin_url |-> Null])

\* AdminProjects.removeProject
removeProject ==
  /\ writes < MaxWrites
  /\ store.projects # <<>>
  /\ writes' = writes + 1
  /\ \E i \in 1..Len(store.projects) :
       store' = [store EXCEPT !.projects =
                   SubSeq(@, 1, i - 1) \o SubSeq(@, i + 1, Len(@))]
  /\ UNCHANGED <<siteUrlEnv, clock, req, reads, res, pin, pout, client>>

\* A request arrives: the handler runs up to its first await, which issues
\* every read of the handler.
Receive ==
  /\ req = NoRequest
  /\ \E handler \in Handlers, lang \in LangQueries, headers \in RequestHeaders :
       /\ handler = "sitemap" => lang = Undef
       /\ LET request == [handler |-> handler,
                          query |-> [lang |-> lang],
                          headers |-> headers,
                          now |-> clock]
          IN  req' = [handler |-> handler,
                      query |-> [lang |-> lang],
                      headers |-> headers,
                      now |-> clock,
                      language |-> normalizeLanguage(request)]
       /\ reads' = [r \in ReadsOf(handler) |-> Pending]
  /\ res' = NewResponse
  /\ UNCHANGED <<store, siteUrlEnv, clock, writes, pin, pout, client>>

Reading == req # NoRequest /\ res.sent = 0

\* a continuation that reads the document again when it uses it
Awaited_ReadAgain(after, name) == store[name]

\* the value a read resolved with, which the continuation works on
Awaited(after, name) == after[name].snapshot

\* a handler answering from what storage holds when it resumes instead of
\* from what its reads returned
Continue_FromStore(after) ==
  CASE req.handler = "resumeHtml" ->
         ResumeHtmlRespond(res, req, siteUrlEnv, store["resume"], store["site"])
    [] req.handler = "resumePdf" ->
         ResumePdfRespond(res, req, store["resume"])
    [] req.handler = "sitemap" ->
         SitemapRespond(res, req, siteUrlEnv,
                        [d \in PublicDocs |-> store[d]], store["projects"])

\* the handler's response once every read has succeeded with results after
Continue(after) ==
  CASE req.handler = "resumeHtml" ->
         ResumeHtmlRespond(res, req, siteUrlEnv,
                           Awaited(after, "resume"), Awaited(after, "site"))
    [] req.handler = "resumePdf" ->
         ResumePdfRespond(res, req, Awaited(after, "resume"))
    [] req.handler = "sitemap" ->
         SitemapRespond(res, req, siteUrlEnv,
                        [d \in PublicDocs |-> Awaited(after, d)],
                        Awaited(after, "projects"))

\* the handler's catch block
Catch ==
  CASE req.handler = "resumeHtml" -> ResumeHtmlCatch(res)
    [] req.handler = "resumePdf" -> ResumePdfCatch(res)
    [] req.handler = "sitemap" -> SitemapCatch(res)

\* the continuation of loadProjectItems raises as soon as the query returns
ProjectsRaise(name, snapshot) ==
  /\ req.handler = "sitemap"
  /\ name = "projects"
  /\ loadProjectItems(resolveSiteUrl(req, siteUrlEnv), IsoDateOf(req.now),
                      snapshot).threw

\* a read returns the current contents of its document
ReadSucceeds ==
  /\ Reading
  /\ \E name \in DOMAIN reads :
       /\ reads[name] = Pending
       /\ LET after == [reads EXCEPT ![name] = ReadOk(store[name])]
          IN  /\ reads' = IF ProjectsRaise(name, store[name])
                         THEN [r \in DOMAIN reads |->
                                 IF r = name THEN after[r] ELSE Discarded]
                         ELSE after
              /\ res' = IF ProjectsRaise(name, store[name]) THEN Catch
                        ELSE IF \A r \in DOMAIN after : after[r].st = "ok"
                          THEN Continue(after)
                        ELSE res
  /\ UNCHANGED <<store, siteUrlEnv, clock, writes, req, pin, pout, client>>

\* a read fails: Promise.all rejects and the catch block runs
ReadFails ==
  /\ Reading
  /\ \E name \in DOMAIN reads, error \in ReadErrors :
       /\ reads[name] = Pending
       /\ reads' = [r \in DOMAIN reads |->
                      IF r = name THEN ReadFailed(error) ELSE Discarded]
  /\ res' = Catch
  /\ UNCHANGED <<store, siteUrlEnv, clock, writes, req, pin, pout, client>>

\* the response has been sent; the next request may arrive
Complete ==
  /\ req # NoRequest
  /\ res.sent > 0
  /\ req' = NoRequest
  /\ reads' = [r \in {} |-> Pending]
  /\ res' = NewResponse
  /\ UNCHANGED <<store, siteUrlEnv, clock, writes, pin, pout, client>>

Next ==
  \/ Advance
  \/ handleUpload
  \/ saveSummary
  \/ saveSections
  \/ saveProfiles
  \/ removeProject
  \/ Receive
  \/ ReadSucceeds
  \/ ReadFails
  \/ Complete

Spec == Init /\ [][Next]_vars

(***************************************************************************)
(* Properties                                                              *)
(***************************************************************************)
\* the request in flight has been answered after every read succeeded
AnsweredAfterReads(handler) ==
  /\ req # NoRequest
  /\ req.handler = handler
  /\ res.sent > 0
  /\ \A r \in DOMAIN reads : reads[r].st = "ok"

\* the gated PDF URL of one language: its own field, else the legacy field
GatedUrl(doc, language) ==
  safeUrl(pick(Coalesce(Field(doc, IF language = "ja" THEN "url_ja" ELSE "url_en"),
                        Field(doc, "url"))))

\* C1: when the resume read succeeds the PDF handler answers 302 with
\* Location equal to preferredResumeUrl(doc, lang) if that is non-null, and
\* 404 text/plain "not configured" exactly when it is null; it never answers
\* 500, and never 404 while a gated URL exists for either language.
C1_PdfRedirectOrNotConfigured ==
  AnsweredAfterReads("resumePdf") =>
    LET doc == loadResumeDoc(reads["resume"].snapshot)
        url == preferredResumeUrl(doc, req.language)
    IN  /\ res.sent = 1
        /\ res.status \in {302, 404}
        /\ url # Null => /\ res.status = 302
                         /\ res.location = url
        /\ url = Null => /\ res.status = 404
                         /\ res.headers["Content-Type"] = CT_Plain
                         /\ res.body = TextBody(MSG_PdfNotConfigured)
                         /\ res.location = Null
        /\ res.status = 404 =>
             \A language \in Languages : GatedUrl(doc, language) = Null

\* a request for the Japanese PDF is redirected to the English PDF, the only
\* one stored
C1_Witness ==
  /\ AnsweredAfterReads("resumePdf")
  /\ req.language = "ja"
  /\ Field(loadResumeDoc(reads["resume"].snapshot), "url_ja") = Undef
  /\ res.status = 302
  /\ res.location = Str(U_cdnEn)

AllReadsOk == \A r \in DOMAIN reads : reads[r].st = "ok"

SomeReadFailed == \E r \in DOMAIN reads : reads[r].st = "failed"

\* a projection or the rendering raised inside the try block
HandlerRaised ==
  /\ req # NoRequest
  /\ \/ /\ req.handler = "resumeHtml"
        /\ AllReadsOk
        /\ normalizeSections(loadResumeDoc(reads["resume"].snapshot),
                             req.language).threw
     \/ /\ req.handler = "sitemap"
        /\ reads["projects"].st = "ok"
        /\ ProjectLastmodRaises(reads["projects"].snapshot)
     \/ /\ req.handler = "sitemap"
        /\ AllReadsOk
        /\ buildStaticItems(<<>>, <<>>, [d \in PublicDocs |-> reads[d].snapshot],
                            <<>>).threw

FailureMessage(handler) ==
  CASE handler = "resumeHtml" -> MSG_HtmlFailure
    [] handler = "resumePdf" -> MSG_PdfFailure
    [] handler = "sitemap" -> MSG_SitemapFailure

\* C2: in resumeHtmlHandler, resumePdfHandler and sitemapHandler a failed
\* storage read, or an exception of a projection or of the rendering, is
\* caught once and answered with status 500, Content-Type
\* "text/plain; charset=utf-8" and the fixed message of the handler, whatever
\* the error was; the response is never left unsent, empty or partial.
C2_FailureIsGeneric500 ==
  (req # NoRequest /\ (SomeReadFailed \/ HandlerRaised)) =>
    /\ res.sent = 1
    /\ res.status = 500
    /\ res.headers["Content-Type"] = CT_Plain
    /\ res.body = TextBody(FailureMessage(req.handler))
    /\ res.location = Null

\* the read of public/resume failed with permission-denied while the
\* résumé page was being built
C2_Witness ==
  /\ req # NoRequest
  /\ req.handler = "resumeHtml"
  /\ reads["resume"] = ReadFailed("permission-denied")
  /\ res.status = 500
  /\ res.body = TextBody(MSG_HtmlFailure)

(***************************************************************************)
(* The origin resolver and the URL gate applied in isolation               *)
(***************************************************************************)
H_www == <<"w","w","w",".","r","o","s","e","n","a","u",".","i","n","f","o">>
H_badHost == <<"b","a","d"," ","h","o","s","t">>
H_exampleOrg == <<"S","h","o","p",".","E","x","a","m","p","l","e",".","o","r","g",":","8","4","4","3">>
H_proxyList == <<"c","d","n",".","i","o",","," ","w","w","w",".","r","o","s","e","n","a","u",".","i","n","f","o">>
P_httpList == <<"H","T","T","P",","," ","h","t","t","p","s">>

OriginEnvs == {Undef, Str(U_siteWww), Str(H_placeholder), Str(U_ftp), Str(U_notUrl)}

ForwardedHosts == {Undef, Str(H_badHost), Str(H_proxyList), Str(H_placeholder)}

Hosts == {Undef, Str(H_www), Str(H_exampleOrg), Str(H_badHost)}

ForwardedProtos == {Undef, Str(P_httpList)}

\* the headers of a request, undefined ones left out
HeadersOf(forwardedHost, host, forwardedProto) ==
  LET all == [n \in {"x-forwarded-host", "host", "x-forwarded-proto"} |->
                CASE n = "x-forwarded-host" -> forwardedHost
                  [] n = "host" -> host
                  [] OTHER -> forwardedProto]
  IN  [n \in {k \in DOMAIN all : all[k] # Undef} |-> all[n]]

InitOrigin ==
  /\ store = StoreEmpty
  /\ siteUrlEnv \in OriginEnvs
  /\ clock = T_start
  /\ client = NoClient
  /\ writes = 0
  /\ Idle
  /\ \E forwardedHost \in ForwardedHosts, host \in Hosts,
        forwardedProto \in ForwardedProtos :
       pin = [fn |-> "origin",
              headers |-> HeadersOf(forwardedHost, host, forwardedProto)]
  /\ pout = NoOutput

\* resolveSiteUrl(req) under process.env.SITE_URL = siteUrlEnv
ApplyResolveSiteUrl ==
  /\ pin.fn = "origin"
  /\ pout = NoOutput
  /\ pout' = [done |-> TRUE, fn |-> "resolveSiteUrl",
              value |-> resolveSiteUrl(pin, siteUrlEnv)]
  /\ UNCHANGED <<store, siteUrlEnv, clock, writes, req, reads, res, pin, client>>

\* toSafeUrl on the Host header value, as if it were stored as a profile link
ApplyToSafeUrl ==
  /\ pin.fn = "origin"
  /\ pout = NoOutput
  /\ pout' = [done |-> TRUE, fn |-> "toSafeUrl",
              value |-> toSafeUrl(Header(pin, "host"))]
  /\ UNCHANGED <<store, siteUrlEnv, clock, writes, req, reads, res, pin, client>>

NextOrigin ==
  \/ ApplyResolveSiteUrl
  \/ ApplyToSafeUrl

SpecOrigin == InitOrigin /\ [][NextOrigin]_vars

\* the language the precedence "lang query > Accept-Language > en" gives
PrecedenceLanguage(lang, acceptLanguage) ==
  IF startsWith(toLowerCase(pick(lang)), S_ja) THEN "ja"
  ELSE IF startsWith(toLowerCase(pick(lang)), S_en) THEN "en"
  ELSE IF includes(toLowerCase(pick(acceptLanguage)), S_ja) THEN "ja"
  ELSE "en"

\* C3: the language of a request is "ja" when the lang query parameter
\* starts (case-insensitively) with "ja" and "en" when it starts with "en",
\* whatever Accept-Language says; when lang is absent or matches neither, an
\* Accept-Language header containing "ja" gives "ja"; otherwise it is "en".
C3_LanguagePrecedence ==
  req # NoRequest =>
    req.language = PrecedenceLanguage(req.query.lang, Header(req, "accept-language"))

\* the origin an input yields when it is a usable http(s) origin, else ''
UsableOrigin(value, rejectPlaceholders) ==
  IF pick(value) = <<>> THEN <<>>
  ELSE OriginOf(ParseUrl(WithProtocol(pick(value))), rejectPlaceholders)

\* the origin of a header host under the protocol of the request
HeaderOrigin(request, name) ==
  IF pick(Header(request, name)) = <<>> THEN <<>>
  ELSE OriginOf(
         ParseUrl((IF toLowerCase(firstToken(pick(Header(request, "x-forwarded-proto"))))
                      = S_http THEN S_http ELSE S_https)
                  \o S_colonSlashSlash \o pick(Header(request, name))),
         FALSE)

\* configured origin > x-forwarded-host > Host > default
PrecedenceOrigin(request, configured) ==
  OrElse(UsableOrigin(configured, TRUE),
         OrElse(HeaderOrigin(request, "x-forwarded-host"),
                OrElse(HeaderOrigin(request, "host"), DEFAULT_SITE_URL)))

\* C4: the base URL of the résumé handlers and of the sitemap handler is the
\* configured origin when it parses as http(s) and is not a placeholder,
\* else the origin derived from x-forwarded-host, else the origin derived
\* from Host, else https://rosenau.info.
C4_BaseUrlPrecedence ==
  (pout.done /\ pout.fn = "resolveSiteUrl") =>
    pout.value = PrecedenceOrigin(pin, siteUrlEnv)

\* the host name of a header or setting, '' when it is not a usable origin
HostNameOf(value) ==
  IF pick(value) = <<>> \/ ~ParseUrl(WithProtocol(pick(value))).ok THEN <<>>
  ELSE ParseUrl(WithProtocol(pick(value))).hostname

IsConfiguredPlaceholder ==
  HostNameOf(siteUrlEnv) # <<>> /\ isPlaceholderHostname(HostNameOf(siteUrlEnv))

\* the host the request-derived tier uses
RequestHost(request) ==
  OrElse(pick(Header(request, "x-forwarded-host")), pick(Header(request, "host")))

\* C5: a placeholder host name is rejected only as the configured origin, and
\* resolution then continues with the request-derived tier; the same host
\* name is accepted when it comes from x-forwarded-host or Host, and the URL
\* gate of the profile links accepts it.
C5_PlaceholderAsymmetry ==
  /\ (pout.done /\ pout.fn = "resolveSiteUrl" /\ IsConfiguredPlaceholder) =>
       /\ pout.value = resolveSiteUrl(pin, Undef)
       /\ (RequestHost(pin) = <<>> => pout.value = DEFAULT_SITE_URL)
       /\ (isPlaceholderHostname(HostNameOf(Str(RequestHost(pin)))) =>
             HostNameOf(Str(pout.value)) = HostNameOf(Str(RequestHost(pin))))
  /\ (pout.done /\ pout.fn = "toSafeUrl"
        /\ isPlaceholderHostname(HostNameOf(Header(pin, "host")))) =>
       /\ pout.value # Null
       /\ HostNameOf(pout.value) = HostNameOf(Header(pin, "host"))

\* SITE_URL is your-domain.com and so is x-forwarded-host: the configured
\* value is passed over and the same host is taken from the header
C5_Witness ==
  /\ pout.done
  /\ pout.fn = "resolveSiteUrl"
  /\ siteUrlEnv = Str(H_placeholder)
  /\ Header(pin, "x-forwarded-host") = Str(H_placeholder)
  /\ pout.value = S_https \o S_colonSlashSlash \o H_placeholder

(***************************************************************************)
(* The projectors applied in isolation to stored documents of every shape  *)
(***************************************************************************)
MaxSections == 2

U_youtube == <<"h","t","t","p","s",":","/","/","y","o","u","t","u","b","e",".","c","o","m","/","@","x">>
T_labelled == <<"G","H"," ","|"," ","h","t","t","p","s",":","/","/","g","i","t","h","u","b",".","c","o","m","/","x">>
T_blank == <<" ","\n"," ">>

\* the object holding the fields of c that are not undefined
DocOf(c) == Obj([k \in {f \in DOMAIN c : c[f] # Undef} |-> c[k]])

SectionEmpty ==
  Obj([title_en |-> Str(<<>>), title_ja |-> Str(T_blank), items_en |-> Arr(<<>>),
       items |-> Str(T_blank)])

SectionLegacy == Obj([title |-> Num(3), items |-> Str(T_summary)])

\* a Japanese title with English items only
SectionMixed ==
  Obj([title_ja |-> Str(T_shokureki), items_en |-> Arr(<<Str(T_roleA)>>)])

\* items in both languages, more of them in Japanese
SectionBoth ==
  Obj([title_en |-> Str(T_experience), items_en |-> Arr(<<Str(T_roleA)>>),
       items_ja |-> Arr(<<Str(T_shokureki), Str(T_name)>>)])

SectionEntries ==
  {Null, Str(T_roleA), SectionExperience, SectionJapaneseOnly, SectionEmpty,
   SectionLegacy, SectionMixed, SectionBoth}

\* the lists of at most n entries
RECURSIVE SectionLists(_)
SectionLists(n) ==
  IF n = 0 THEN {<<>>}
  ELSE SectionLists(n - 1)
         \cup {Append(list, entry) : list \in {l \in SectionLists(n - 1) : Len(l) = n - 1},
                                     entry \in SectionEntries}

UrlDocs ==
  {Null} \cup
  {DocOf(c) : c \in [url_en : {Undef, Null, Str(U_cdnEn), Str(U_notUrl), Str(U_ftp)},
                     url_ja : {Undef, Str(U_cdnJa), Str(U_bare), Str(<<>>)},
                     url : {Undef, Str(U_cdnNew), Num(7)}]}

SummaryDocs ==
  {Null} \cup
  {DocOf(c) : c \in [summary : {Undef, Str(T_summary), Str(T_blank), Num(5)},
                     summary_en : {Undef, Null, Str(<<>>), Str(T_roleA)},
                     summary_ja : {Undef, Str(T_shokureki), Arr(<<Str(T_roleA)>>)}]}

SectionDocs ==
  {Null, Obj([sections |-> Str(T_roleA)]), Obj([sections |-> Null])} \cup
  {Obj([sections |-> Arr(list)]) : list \in SectionLists(MaxSections)}

SiteDocs ==
  {Null} \cup
  {DocOf(c) : c \in [githubUrl : {Undef, Null, Str(U_github), Str(U_notUrl)},
                     github : {Undef, Str(U_github)},
                     youtubeUrl : {Undef, Str(U_youtube)},
                     website : {Undef, Str(U_blogBare)},
                     sameAs : {Undef, Num(3), Str(T_mixedLinks),
                               Arr(<<Str(U_githubUpper), Str(U_blogBare)>>),
                               Arr(<<Null, Str(U_youtube), Str(T_labelled)>>)},
                     name : {Undef, Str(T_name)},
                     name_ja : {Undef, Str(T_shokureki), Num(1)}]}

ProjectorInputs ==
  {[fn |-> "urls", doc |-> d, language |-> l] : d \in UrlDocs, l \in Languages}
    \cup {[fn |-> "summary", doc |-> d, language |-> l] :
            d \in SummaryDocs, l \in Languages}
    \cup {[fn |-> "sections", doc |-> d, language |-> l] :
            d \in SectionDocs, l \in Languages}
    \cup {[fn |-> "site", doc |-> d, language |-> l] : d \in SiteDocs, l \in Languages}

InitProjectors ==
  /\ store = StoreEmpty
  /\ siteUrlEnv = Undef
  /\ clock = T_start
  /\ client = NoClient
  /\ writes = 0
  /\ Idle
  /\ pin \in ProjectorInputs
  /\ pout = NoOutput

\* the call of a projector on the input, recording what it returns
Project(kind, fn, result) ==
  /\ pin.fn = kind
  /\ pout = NoOutput
  /\ pout' = [done |-> TRUE, fn |-> fn, result |-> result]
  /\ UNCHANGED <<store, siteUrlEnv, clock, writes, req, reads, res, pin, client>>

ApplyPreferredResumeUrl ==
  Project("urls", "preferredResumeUrl",
          Returned(preferredResumeUrl(pin.doc, pin.language)))

ApplySummaryParagraphs ==
  Project("summary", "summaryParagraphs",
          Returned(summaryParagraphs(pin.doc, pin.language)))

ApplyNormalizeSections ==
  Project("sections", "normalizeSections", normalizeSections(pin.doc, pin.language))

ApplyPersonName ==
  Project("site", "personName", Returned(personName(pin.doc, pin.language)))

ApplyProfileLinks ==
  Project("site", "profileLinks", Returned(profileLinks(pin.doc)))

\* the client reading of the same site document
ApplyNormalizeProfileLinks ==
  Project("site", "normalizeProfileLinks", Returned(normalizeProfileLinks(pin.doc)))

NextProjectors ==
  \/ ApplyNormalizeProfileLinks
  \/ ApplyPreferredResumeUrl
  \/ ApplySummaryParagraphs
  \/ ApplyNormalizeSections
  \/ ApplyPersonName
  \/ ApplyProfileLinks

SpecProjectors == InitProjectors /\ [][NextProjectors]_vars

Projected(fn) == pout.done /\ pout.fn = fn

\* C6: preferredResumeUrl returns the gated URL of the requested language
\* (its own field, else the legacy field) when that passes the gate, else the
\* gated URL of the other language when that passes, else null; an invalid
\* primary URL does not block a valid secondary one and nothing that fails
\* the gate is returned.
C6_PreferredResumeUrl ==
  Projected("preferredResumeUrl") =>
    LET value == pout.result.value
        primary == GatedUrl(pin.doc, pin.language)
        secondary == GatedUrl(pin.doc, OtherLanguage(pin.language))
    IN  /\ primary # Null => value = primary
        /\ (primary = Null /\ secondary # Null) => value = secondary
        /\ (primary = Null /\ secondary = Null) => value = Null
        /\ value # Null => /\ ParseUrl(value.v).ok
                           /\ ParseUrl(value.v).protocol \in {S_http, S_https}

\* url_en is "not a url", url_ja is valid: the English request gets the
\* Japanese PDF
C6_Witness ==
  /\ Projected("preferredResumeUrl")
  /\ pin.language = "en"
  /\ Field(pin.doc, "url_en") = Str(U_notUrl)
  /\ pout.result.value = Str(U_cdnJa)

\* C7: personName, profileLinks, preferredResumeUrl, summaryParagraphs and
\* normalizeSections return for every stored document shape (null, the empty
\* object, fields of the wrong type, a sections list with null or non-object
\* entries) without throwing, so that malformed field data never makes
\* resumeHtmlHandler answer 500.
C7_ProjectorsTotal ==
  (req # NoRequest /\ req.handler = "resumeHtml" /\ AllReadsOk) =>
    /\ ~normalizeSections(loadResumeDoc(reads["resume"].snapshot), req.language).threw
    /\ res.status = 200

\* C8: a résumé document with a non-empty legacy summary and neither
\* summary_en nor summary_ja has the same non-empty list of paragraphs in
\* English and in Japanese.
C8_LegacySummaryBothLanguages ==
  (/\ Projected("summaryParagraphs")
   /\ pick(Field(pin.doc, "summary")) # <<>>
   /\ Field(pin.doc, "summary_en") = Undef
   /\ Field(pin.doc, "summary_ja") = Undef) =>
    /\ pout.result.value # <<>>
    /\ pout.result.value = summaryParagraphs(pin.doc, OtherLanguage(pin.language))
    /\ \A i \in 1..Len(pout.result.value) : pout.result.value[i] # <<>>

\* the document holds only summary = "Hello\n\nWorld" and the Japanese
\* summary is asked for
C8_Witness ==
  /\ Projected("summaryParagraphs")
  /\ pin.language = "ja"
  /\ pin.doc = Obj([summary |-> Str(T_summary)])
  /\ pout.result.value = <<<<"H","e","l","l","o">>, <<"W","o","r","l","d">>>>

\* title and items of a stored section in a language, after falling back to
\* the other language
LocalizedTitle(section, language) ==
  OrElse(pick(Coalesce(Field(section, IF language = "ja" THEN "title_ja" ELSE "title_en"),
                       Field(section, "title"))),
         pick(Coalesce(Field(section, IF language = "ja" THEN "title_en" ELSE "title_ja"),
                       Field(section, "title"))))

LocalizedItems(section, language) ==
  OrElse(toList(Coalesce(Field(section, IF language = "ja" THEN "items_ja" ELSE "items_en"),
                         Field(section, "items"))),
         toList(Coalesce(Field(section, IF language = "ja" THEN "items_en" ELSE "items_ja"),
                         Field(section, "items"))))

\* the stored sections that have a title or an item, in stored order
KeptSections(list, language) ==
  SelectSeq([i \in 1..Len(list) |->
               [title |-> LocalizedTitle(list[i], language),
                items |-> LocalizedItems(list[i], language)]],
            LAMBDA sec : sec.title # <<>> \/ sec.items # <<>>)

\* C9: normalizeSections keeps a stored section exactly when, after the
\* fallback from the requested language to the other one, its title or its
\* list of items is non-empty; a section empty in both languages is left
\* out, a section with only a Japanese title is kept for both languages, and
\* the kept sections stay in stored order.
C9_SectionFiltering ==
  (Projected("normalizeSections") /\ Field(pin.doc, "sections").t = "array") =>
    /\ ~pout.result.threw
    /\ [i \in 1..Len(pout.result.value) |->
          [title |-> pout.result.value[i].title, items |-> pout.result.value[i].items]]
         = KeptSections(Field(pin.doc, "sections").v, pin.language)

\* the known profile fields of the specification, by label
KnownProfileFields ==
  { [label |-> L_GitHub, keys |-> <<"githubUrl", "github_url", "github">>],
    [label |-> L_LinkedIn, keys |-> <<"linkedinUrl", "linkedin_url", "linkedin">>],
    [label |-> L_X,
     keys |-> <<"xUrl", "x_url", "twitterUrl", "twitter_url", "twitter">>],
    [label |-> L_Website, keys |-> <<"website", "websiteUrl", "website_url">>],
    [label |-> L_Blog, keys |-> <<"blogUrl", "blog_url", "blog">>],
    [label |-> L_YouTube, keys |-> <<"youtubeUrl", "youtube_url", "youtube">>] }

KnownLabels == {field.label : field \in KnownProfileFields}

\* C10: the profile links hold no URL twice; the links of the known fields
\* (GitHub, LinkedIn, X/Twitter, Website, Blog, YouTube) come before those of
\* sameAs/profileLinks, so that a URL found in both is listed once under the
\* label of the known field; the links stay in the order of their first
\* occurrences.
C10_ProfileLinksDeduplicated ==
  (Projected("profileLinks") /\ pin.doc # Null) =>
    LET links == pout.result.value
    IN  /\ \A i, j \in 1..Len(links) : links[i].url = links[j].url => i = j
        /\ \A field \in KnownProfileFields :
             toSafeUrl(FirstOf(pin.doc, field.keys)) # Null =>
               \E i \in 1..Len(links) :
                 /\ Str(links[i].url) = toSafeUrl(FirstOf(pin.doc, field.keys))
                 /\ links[i].label \in KnownLabels
        /\ \A i, j \in 1..Len(links) :
             (links[i].label \notin KnownLabels /\ links[j].label \in KnownLabels)
               => j < i

(***************************************************************************)
(* The URL gate as a pure function: toSafeUrl, toSafeUrl of its own        *)
(* output, preferredResumeUrl on the same stored value, and the client     *)
(* copy normalizeExternalUrl.                                              *)
(***************************************************************************)
U_examplePage == <<"e","x","a","m","p","l","e",".","o","r","g","/","p","a","g","e">>
U_exampleOrigin == <<"h","t","t","p","s",":","/","/","e","x","a","m","p","l","e",".","o","r","g">>
U_examplePageHttps == <<"h","t","t","p","s",":","/","/","e","x","a","m","p","l","e",".","o","r","g","/","p","a","g","e">>
U_exampleCv == <<"e","x","a","m","p","l","e",".","o","r","g","/","c","v",".","p","d","f">>

\* the stored strings: every prefix before every host before every path
GatePrefixes ==
  {<<>>, S_https \o S_colonSlashSlash, S_http \o S_colonSlashSlash,
   <<"H","T","T","P","S",":","/","/">>, <<"f","t","p",":","/","/">>, <<"m","a","i","l","t","o",":">>}

GateHosts == {<<"e","x","a","m","p","l","e",".","o","r","g">>, <<"E","x","a","m","p","l","e",".","O","R","G",":","4","4","3">>, <<"x",".","c","o","m">>, U_notUrl, <<>>}

GatePaths == {<<>>, <<"/","p","a","g","e">>, <<"/","c","v",".","p","d","f">>, <<"/","a"," ","b">>}

GateStrings == {p \o h \o t : p \in GatePrefixes, h \in GateHosts, t \in GatePaths}

GateInputs == {Str(v) : v \in GateStrings} \cup {Null, Undef}

InitGate ==
  /\ store = StoreEmpty
  /\ siteUrlEnv = Undef
  /\ clock = T_start
  /\ client = NoClient
  /\ writes = 0
  /\ Idle
  /\ \E v \in GateInputs : pin = [fn |-> "gate", value |-> v]
  /\ pout = NoOutput

\* toSafeUrl(value)
ApplyGate ==
  Project("gate", "toSafeUrl", Returned(toSafeUrl(pin.value)))

\* toSafeUrl on what toSafeUrl returned
ApplyGateAgain ==
  /\ pin.fn = "gate"
  /\ Projected("toSafeUrl")
  /\ pout' = [done |-> TRUE, fn |-> "toSafeUrl.toSafeUrl", first |-> pout.result.value,
              result |-> Returned(toSafeUrl(pout.result.value))]
  /\ UNCHANGED <<store, siteUrlEnv, clock, writes, req, reads, res, pin, client>>

\* preferredResumeUrl on a resume document that stores the value as its url
ApplyPreferredOnStored ==
  \E language \in Languages :
    Project("gate", "preferredResumeUrl",
            Returned(preferredResumeUrl(Obj([url |-> pin.value]), language)))

\* normalizeExternalUrl(value) of the client, which is only given strings
ApplyNormalizeExternalUrl ==
  /\ pin.value.t = "string"
  /\ Project("gate", "normalizeExternalUrl", Returned(normalizeExternalUrl(pin.value.v)))

NextGate ==
  \/ ApplyGate
  \/ ApplyGateAgain
  \/ ApplyPreferredOnStored
  \/ ApplyNormalizeExternalUrl

SpecGate == InitGate /\ [][NextGate]_vars

\* raw starts with "<scheme>://" for a scheme other than http and https
HasForeignScheme(raw) ==
  LET n == SchemeLen(raw)
  IN  /\ n > 0
      /\ startsWith(DropFirst(raw, n), S_colonSlashSlash)
      /\ toLowerCase(TakeFirst(raw, n)) \notin {S_http, S_https}

\* C11: toSafeUrl returns null for "ftp://x.com", for "not a url", for the
\* empty string and for every input with an explicit scheme other than http
\* or https; it returns "https://example.org/page" for "example.org/page"
\* and returns "https://example.org" unchanged.
C11_GateExamples ==
  Projected("toSafeUrl") /\ pin.value.t = "string" =>
    /\ pin.value.v \in {U_ftp, U_notUrl, <<>>} => pout.result.value = Null
    /\ HasForeignScheme(pin.value.v) => pout.result.value = Null
    /\ pin.value.v = U_examplePage => pout.result.value = Str(U_examplePageHttps)
    /\ pin.value.v = U_exampleOrigin => pout.result.value = Str(U_exampleOrigin)

\* C12: the URL gate is idempotent on its own output: whenever toSafeUrl(x)
\* is a URL u, toSafeUrl(u) is u again.
C12_GateIdempotent ==
  Projected("toSafeUrl.toSafeUrl") /\ pout.first # Null =>
    pout.result.value = pout.first

\* the gate changed its input (added the scheme, lowered the host, dropped
\* the default port or encoded the path) and was applied to the outcome
C12_Witness ==
  /\ Projected("toSafeUrl.toSafeUrl")
  /\ pout.first # Null
  /\ pout.first # pin.value
  /\ ~HasHttpPrefix(pin.value.v)

\* C13: a stored resume PDF URL passes through the same gate as every other
\* URL: preferredResumeUrl accepts a stored value exactly when toSafeUrl
\* accepts it and yields the same URL, so that a value without a scheme such
\* as "example.org/cv.pdf" is accepted with "https://" prepended.
C13_PdfUrlThroughGate ==
  Projected("preferredResumeUrl") =>
    /\ pout.result.value = toSafeUrl(pin.value)
    /\ pin.value = Str(U_exampleCv) =>
         pout.result.value = Str(S_https \o S_colonSlashSlash \o U_exampleCv)

(***************************************************************************)
(* The content area of the resume page                                     *)
(***************************************************************************)
\* resumeHtmlHandler answered with the rendered page
ResumePageRendered == AnsweredAfterReads("resumeHtml") /\ res.status = 200

NeutralMessage(language) ==
  IF language = "ja" THEN <<"{ja:Resume data is currently being prepared.}">>
  ELSE <<"{en:Resume data is currently being prepared.}">>

HasTag(area, tags) == \E i \in 1..Len(area) : area[i].tag \in tags

\* C14: the content area of a rendered resume page holds either the neutral
\* "being prepared" message of the page's language, exactly when the resolved
\* summary and the resolved section list are both empty, or else the summary
\* and section markup; it is never empty and never holds both.
C14_ContentOrNeutral ==
  ResumePageRendered =>
    LET doc == loadResumeDoc(reads["resume"].snapshot)
        summary == summaryParagraphs(doc, req.language)
        sections == normalizeSections(doc, req.language).value
        area == res.body.content
    IN  /\ Len(area) > 0
        /\ HasTag(area, {"empty"}) <=> (summary = <<>> /\ sections = <<>>)
        /\ ~(HasTag(area, {"empty"}) /\ HasTag(area, {"article", "section"}))
        /\ HasTag(area, {"empty"}) =>
             area = <<[tag |-> "empty", p |-> escapeHtml(NeutralMessage(req.language))]>>
        /\ Len(SelectSeq(area, LAMBDA e : e.tag = "article")) = Len(summary)
        /\ Len(SelectSeq(area, LAMBDA e : e.tag = "section")) = Len(sections)

\* a page with sections and no summary
C14_Witness ==
  /\ ResumePageRendered
  /\ summaryParagraphs(loadResumeDoc(reads["resume"].snapshot), req.language) = <<>>
  /\ HasTag(res.body.content, {"section"})

(***************************************************************************)
(* sitemapHandler as a function of what its reads return: the public       *)
(* documents, the documents of the projects query (which come ordered by   *)
(* document id) and the instant of generation.                             *)
(***************************************************************************)
MaxProjects == 2

D_dec == <<"2","0","2","4","-","1","2","-","0","1">>
ID_gamma == <<"g","a","m","m","a">>
U_coverAmp == <<"h","t","t","p","s",":","/","/","c","d","n",".","i","o","/","a","&","b","'","c",".","p","n","g">>
T_later == DaysFromCivil(2024, 7, 2) * SecondsPerDay

\* the fields of a project document, stored with updateTime 2024-01-01
ProjectFieldSets ==
  { [order |-> Num(1)],
    [updatedAt |-> Str(D_jan), github_pushed_at |-> Str(D_jun)],
    [createdAt |-> Str(D_dec)],
    [updatedAt |-> Str(T_soon), cover |-> Str(U_coverAmp)],
    [updatedAt |-> Num(HugeNumber)] }

ProjectIds == <<ID_alpha, ID_beta, ID_gamma>>

\* the results of the projects query: documents of increasing id
ProjectLists ==
  UNION { { [i \in 1..n |-> ProjectDoc(ProjectIds[ids[i]], fields[i], T_jan, T_jan)] :
              ids \in {f \in [1..n -> 1..Len(ProjectIds)] :
                         \A i \in 1..n : \A j \in 1..n : i < j => f[i] < f[j]},
              fields \in [1..n -> ProjectFieldSets] } :
          n \in 0..MaxProjects }

SiteSnapshots ==
  {Absent, Present([name |-> Str(T_name)], T_jan, T_jan),
   Present([updatedAt |-> Str(D_dec)], T_jan, T_jan)}

HomeSnapshots == {Absent, Present([blurb |-> Str(T_roleA)], T_jan, T_jun)}

ResumeSnapshots ==
  {Absent, Present([updatedAt |-> Str(D_jun)], T_jan, T_jan),
   Present([ja_eta |-> Str(D_dec)], T_jan, T_jan),
   Present([ja_eta |-> Str(T_soon)], T_jan, T_jan)}

SitemapInputs ==
  { [fn |-> "sitemap",
     request |-> [headers |-> NoHeaders, now |-> now],
     docs |-> [site |-> site, home |-> home, about |-> Absent,
               contact |-> Present([updatedAt |-> Str(T_soon)], T_jan, T_jan),
               resume |-> resume],
     projects |-> projects] :
    now \in {T_start, T_later}, site \in SiteSnapshots, home \in HomeSnapshots,
    resume \in ResumeSnapshots, projects \in ProjectLists }

InitSitemap ==
  /\ store = StoreEmpty
  /\ siteUrlEnv = Undef
  /\ clock = T_start
  /\ client = NoClient
  /\ writes = 0
  /\ Idle
  /\ pin \in SitemapInputs
  /\ pout = NoOutput

\* sitemapHandler from the moment both of its promises have resolved
ApplySitemapHandler ==
  Project("sitemap", "sitemapHandler",
          SitemapRespond(NewResponse, pin.request, siteUrlEnv, pin.docs, pin.projects))

\* loadProjectItems alone, from the moment its query has resolved
ApplyLoadProjectItems ==
  Project("sitemap", "loadProjectItems",
          loadProjectItems(resolveSiteUrl(pin.request, siteUrlEnv),
                           IsoDateOf(pin.request.now), pin.projects))

NextSitemap ==
  \/ ApplySitemapHandler
  \/ ApplyLoadProjectItems

SpecSitemap == InitSitemap /\ [][NextSitemap]_vars

\* the sitemap was generated
SitemapGenerated == Projected("sitemapHandler") /\ pout.result.status = 200

\* the date of the latest of the storage-level update timestamp and the
\* named fields of a document, null when there is none
LastmodOfSources(snapshot, fields) ==
  IF ~snapshot.exists THEN Null
  ELSE latestIsoDate(<<snapshot.updateTime>>
                       \o [i \in 1..Len(fields) |-> Field(snapshot.data, fields[i])]).value

\* the explicit updated fields and the GitHub-sync fields of a project
UpdatedAndGitHubFields ==
  <<"updatedAt", "updated_at", "github_synced_at", "github_updated_at",
    "github_pushed_at", "pushed_at">>

SourcedProjectLastmod(doc, today) ==
  LET latest == LastmodOfSources(doc, UpdatedAndGitHubFields)
  IN  IF latest = Null THEN today ELSE latest.v

\* the entry of a page whose sources are the listed dates
SourcedPageLastmod(today, dates) == maxDate(today, dates)

ProjectLoc(base, id) == escapeXml(base \o S_projectsPath \o <<"/">> \o encodeURIComponent(id))

EntryAt(loc) ==
  LET items == pout.result.body.items
  IN  {items[i] : i \in {k \in 1..Len(items) : items[k].loc = loc}}

\* C15: the lastmod of every sitemap entry is the date of the latest of the
\* storage-level update timestamp of the entry's documents, their explicit
\* updated fields and, for a project, its GitHub-sync fields, and of nothing
\* else; a missing or unparsable source is left out.  A project with
\* updatedAt 2024-01-01 and github_pushed_at 2024-06-01 has lastmod
\* 2024-06-01.
C15_LastmodSources ==
  SitemapGenerated =>
    LET base == resolveSiteUrl(pin.request, siteUrlEnv)
        today == IsoDateOf(pin.request.now)
        site == LastmodOfSources(pin.docs.site, UpdatedFields)
        resume == LastmodOfSources(pin.docs.resume, UpdatedFields)
    IN  /\ \A i \in 1..Len(pin.projects) :
             \E e \in EntryAt(ProjectLoc(base, pin.projects[i].id)) :
               e.lastmod = SourcedProjectLastmod(pin.projects[i], today)
        /\ \A e \in EntryAt(escapeXml(base \o <<"/">>)) :
             e.lastmod = SourcedPageLastmod(today,
                           <<site, LastmodOfSources(pin.docs.home, UpdatedFields)>>)
        /\ \A e \in EntryAt(escapeXml(base \o S_resumePath))
                      \cup EntryAt(escapeXml(base \o S_resumePdfPath)) :
             e.lastmod = SourcedPageLastmod(today, <<site, resume>>)

\* the date the available sources alone give, the generation date when there
\* is none
DateOfSources(today, dates) ==
  IF \A i \in 1..Len(dates) : dates[i] = Null THEN today
  ELSE MaxDateFrom(<<>>, dates)

\* C16: the lastmod of a sitemap entry is the generation date only when the
\* entry has no timestamp source at all; as soon as one source of the entry
\* parses, lastmod is the latest of the sources and does not depend on the
\* generation date.  This holds for the static entries, /projects included,
\* and for the entries of projects without timestamp fields.
C16_FallbackOnlyWithoutSources ==
  SitemapGenerated =>
    LET base == resolveSiteUrl(pin.request, siteUrlEnv)
        today == IsoDateOf(pin.request.now)
        site == docLastmod(pin.docs.site, UpdatedFields).value
        home == docLastmod(pin.docs.home, UpdatedFields).value
        resume == docLastmod(pin.docs.resume, ResumeTimeFields).value
        projectDates == [i \in 1..Len(pin.projects) |->
                           snapshotLastmod(pin.projects[i], ProjectTimeFields).value]
    IN  /\ \A i \in 1..Len(pin.projects) :
             \A e \in EntryAt(ProjectLoc(base, pin.projects[i].id)) :
               e.lastmod = DateOfSources(today, <<projectDates[i]>>)
        /\ \A e \in EntryAt(escapeXml(base \o <<"/">>)) :
             e.lastmod = DateOfSources(today, <<site, home>>)
        /\ \A e \in EntryAt(escapeXml(base \o S_resumePath)) :
             e.lastmod = DateOfSources(today, <<site, resume>>)
        /\ \A e \in EntryAt(escapeXml(base \o S_projectsPath)) :
             e.lastmod = DateOfSources(today, <<site>> \o projectDates)

(***************************************************************************)
(* Escaping of what is interpolated into the resume page                   *)
(***************************************************************************)
Entities ==
  {<<"&","a","m","p",";">>, <<"&","l","t",";">>, <<"&","g","t",";">>,
   <<"&","q","u","o","t",";">>, <<"&","#","3","9",";">>, <<"&","a","p","o","s",";">>}

\* text holds none of the characters in raw, and each "&" starts an entity
EscapedText(text, raw) ==
  \A i \in 1..Len(text) :
    /\ text[i] \notin raw
    /\ text[i] = "&" =>
         \E e \in Entities : /\ i + Len(e) - 1 <= Len(text)
                             /\ SubSeq(text, i, i + Len(e) - 1) = e

SeqRange(values) == {values[i] : i \in 1..Len(values)}

\* what the page interpolates into elements and attributes
PageTexts(page) ==
  {page.title, page.description, page.ogTitle, page.ogUrl, page.canonical,
   page.alternateEn, page.alternateJa, page.alternateDefault, page.alternatePdf,
   page.brandHref, page.brandName, page.heading, page.subtitle, page.lead,
   page.footer}
    \cup SeqRange(page.metadata)
    \cup {l.href : l \in SeqRange(page.profiles)}
    \cup {l.label : l \in SeqRange(page.profiles)}
    \cup {e.p : e \in {x \in SeqRange(page.content) : x.tag # "section"}}
    \cup {e.section.id : e \in {x \in SeqRange(page.content) : x.tag = "section"}}
    \cup UNION {SeqRange(e.section.heading) \cup SeqRange(e.section.items) :
                  e \in {x \in SeqRange(page.content) : x.tag = "section"}}

\* the strings of the JSON-LD script block
JsonLdTexts(page) ==
  {page.structuredData.name, page.structuredData.url, page.structuredData.isPartOf,
   page.structuredData.personName}
    \cup SeqRange(page.structuredData.sameAs)

\* C17: every value taken from a stored document or from the request headers
\* goes through the escaper for & < > " ' before it reaches the resume page:
\* the title, the meta and link attributes, the body text, the section ids,
\* the profile links and the JSON-LD script block, so that no such value can
\* end the element or the attribute around it.
C17_InterpolationsEscaped ==
  ResumePageRendered =>
    /\ \A text \in PageTexts(res.body) : EscapedText(text, {"<", ">", "\"", "'"})
    /\ \A text \in JsonLdTexts(res.body) : EscapedText(text, {"<", ">"})

StaticPaths == <<<<"/">>, S_aboutPath, S_projectsPath, S_contactPath, S_resumePath, S_resumePdfPath>>

\* C18: a generated sitemap holds the six static entries /, /about,
\* /projects, /contact, /resume and /resume.pdf, whichever public documents
\* exist, followed by exactly one entry for each document of the projects
\* collection: 6 plus the number of project documents in all, none of them
\* left out and none emitted twice.
C18_SixStaticPlusProjects ==
  SitemapGenerated =>
    LET base == resolveSiteUrl(pin.request, siteUrlEnv)
        items == pout.result.body.items
    IN  /\ Len(items) = Len(StaticPaths) + Len(pin.projects)
        /\ Len(StaticPaths) = 6
        /\ \A i \in 1..Len(StaticPaths) : items[i].loc = escapeXml(base \o StaticPaths[i])
        /\ \A i \in 1..Len(pin.projects) :
             Cardinality({k \in (Len(StaticPaths) + 1)..Len(items) :
                            items[k].loc = ProjectLoc(base, pin.projects[i].id)}) = 1

\* two projects and no public document but public/contact
C18_Witness ==
  /\ SitemapGenerated
  /\ Len(pin.projects) = 2
  /\ ~pin.docs.site.exists /\ ~pin.docs.home.exists /\ ~pin.docs.resume.exists
  /\ Len(pout.result.body.items) = 8

(***************************************************************************)
(* Documents that do not exist                                             *)
(***************************************************************************)
ResumeAbsent == ~reads["resume"].snapshot.exists

SiteAbsent == ~reads["site"].snapshot.exists

\* C19: a document that does not exist is a normal input.  When the reads
\* succeed and public/resume and/or public/site is absent, resumeHtmlHandler
\* answers 200 with a complete page (the default person name and no profile
\* links without a site; the neutral message and no PDF link without a
\* resume) and sitemapHandler answers 200 with the six static entries;
\* neither answers 404 or 500 on account of an absent document.
C19_AbsentDocumentIsNormal ==
  /\ (AnsweredAfterReads("resumeHtml") /\ (ResumeAbsent \/ SiteAbsent) /\ ~HandlerRaised) =>
       /\ res.sent = 1
       /\ res.status = 200
       /\ res.headers["Content-Type"] = CT_Html
       /\ SiteAbsent => /\ res.body.brandName = escapeHtml(DEFAULT_PERSON_NAME)
                        /\ res.body.profiles = <<>>
                        /\ res.body.structuredData.sameAs = <<>>
       /\ ResumeAbsent =>
            /\ res.body.content =
                 <<[tag |-> "empty", p |-> escapeHtml(NeutralMessage(req.language))]>>
            /\ res.body.pdfAnchor = <<>>
  /\ (AnsweredAfterReads("sitemap") /\ (ResumeAbsent \/ SiteAbsent) /\ ~HandlerRaised) =>
       /\ res.sent = 1
       /\ res.status = 200
       /\ Len(res.body.items) >= Len(StaticPaths)
       /\ \A i \in 1..Len(StaticPaths) :
            res.body.items[i].loc =
              escapeXml(resolveSiteUrl(req, siteUrlEnv) \o StaticPaths[i])

\* the page for a site that was filled in while no resume exists yet
C19_Witness ==
  /\ AnsweredAfterReads("resumeHtml")
  /\ ResumeAbsent
  /\ ~SiteAbsent
  /\ res.status = 200
  /\ res.body.pdfAnchor = <<>>

(***************************************************************************)
(* Nothing is kept between requests                                        *)
(***************************************************************************)
\* the response a handler computes from a request, the configured site URL
\* and the results of that request's reads, starting from an untouched
\* response object
ResponseFrom(request, env, results) ==
  CASE request.handler = "resumeHtml" ->
         ResumeHtmlRespond(NewResponse, request, env,
                           results["resume"].snapshot, results["site"].snapshot)
    [] request.handler = "resumePdf" ->
         ResumePdfRespond(NewResponse, request, results["resume"].snapshot)
    [] request.handler = "sitemap" ->
         SitemapRespond(NewResponse, request, env,
                        [d \in PublicDocs |-> results[d].snapshot],
                        results["projects"].snapshot)

AnsweredFromOwnReads ==
  (req # NoRequest /\ res.sent > 0 /\ AllReadsOk) =>
    res = ResponseFrom(req, siteUrlEnv, reads)

\* a read that completes returns what storage holds at that moment, every
\* completed write included
ReadReturnsStored ==
  \A name \in DOMAIN reads \cap DOMAIN reads' :
    (reads[name].st = "pending" /\ reads'[name].st = "ok") =>
      reads'[name].snapshot = store[name]

\* C20: no handler keeps derived state between requests.  Under every
\* interleaving of admin writes and requests a response is computed from the
\* request and from what the request's own reads returned, and a read
\* returns the stored contents of the moment it completes; so a request whose
\* reads begin after a write never renders the value from before the write,
\* and equal requests reading equal contents get equal responses.
C20_NoStateBetweenRequests ==
  [](AnsweredFromOwnReads) /\ [][ReadReturnsStored]_vars

\* a page rendered from the resume read before an admin write and the site
\* read after it: storage no longer holds what the page was computed from
C20_Witness ==
  /\ AnsweredAfterReads("resumeHtml")
  /\ writes > 0
  /\ reads["resume"].snapshot # store["resume"]
  /\ res.status = 200

(***************************************************************************)
(* Resolution of a field over its candidate keys                           *)
(***************************************************************************)
\* the value of the first key that is stored with a value other than
\* undefined, null and '' included; undefined when there is none
RECURSIVE FirstDefined(_, _)
FirstDefined(obj, keys) ==
  IF keys = <<>> THEN Undef
  ELSE IF Field(obj, Head(keys)) # Undef THEN Field(obj, Head(keys))
  ELSE FirstDefined(obj, Tail(keys))

LanguageKey(stem, language) == IF language = "ja" THEN stem \o "_ja" ELSE stem \o "_en"

\* the gated URL of one language with the search ending at the first defined key
FirstDefinedUrl(doc, language) ==
  safeUrl(pick(FirstDefined(doc, <<LanguageKey("url", language), "url">>)))

FirstDefinedSummary(doc, language) ==
  toParagraphs(FirstDefined(doc, <<LanguageKey("summary", language), "summary">>))

\* C21: a field is resolved to the value of the first candidate key whose
\* stored value is not undefined.  A key stored as null (as the admin panel
\* writes for a cleared field) or as '' ends the search and resolves to
\* empty; a later legacy key is consulted only when every earlier key is
\* undefined.
C21_FirstDefinedKeyWins ==
  /\ (Projected("preferredResumeUrl") /\ pin.fn = "urls" /\ pin.doc # Null) =>
       pout.result.value =
         Coalesce(FirstDefinedUrl(pin.doc, pin.language),
                  FirstDefinedUrl(pin.doc, OtherLanguage(pin.language)))
  /\ (Projected("summaryParagraphs") /\ pin.doc # Null) =>
       pout.result.value =
         IF FirstDefinedSummary(pin.doc, pin.language) # <<>>
         THEN FirstDefinedSummary(pin.doc, pin.language)
         ELSE FirstDefinedSummary(pin.doc, OtherLanguage(pin.language))
  /\ (Projected("profileLinks") /\ pin.doc # Null) =>
       ((\E i \in 1..Len(pout.result.value) : pout.result.value[i].label = L_GitHub)
          <=> toSafeUrl(FirstDefined(pin.doc, <<"githubUrl", "github_url", "github">>)) # Null)

(***************************************************************************)
(* The fallback between the two languages                                  *)
(***************************************************************************)
\* the stored name in one language: its own field, else the legacy field
NameIn(site, language) ==
  pick(Coalesce(Field(site, LanguageKey("name", language)), Field(site, "name")))

SummaryIn(doc, language) ==
  toParagraphs(Coalesce(Field(doc, LanguageKey("summary", language)),
                        Field(doc, "summary")))

TitleIn(section, language) ==
  pick(Coalesce(Field(section, LanguageKey("title", language)), Field(section, "title")))

ItemsIn(section, language) ==
  toList(Coalesce(Field(section, LanguageKey("items", language)), Field(section, "items")))

\* the value for the language when it is not empty, else the other one
Displayed(own, other) == IF own # <<>> THEN own ELSE other

\* title and items of every stored section, each with its own fallback, the
\* sections empty in both left out
DisplayedSections(list, language) ==
  SelectSeq([i \in 1..Len(list) |->
               [title |-> Displayed(TitleIn(list[i], language),
                                    TitleIn(list[i], OtherLanguage(language))),
                items |-> Displayed(ItemsIn(list[i], language),
                                    ItemsIn(list[i], OtherLanguage(language)))]],
            LAMBDA sec : sec.title # <<>> \/ sec.items # <<>>)

SummaryFallsBack ==
  (Projected("summaryParagraphs") /\ pin.doc # Null) =>
    pout.result.value = Displayed(SummaryIn(pin.doc, pin.language),
                                  SummaryIn(pin.doc, OtherLanguage(pin.language)))

SectionsFallBack ==
  (Projected("normalizeSections") /\ ~pout.result.threw
     /\ Field(pin.doc, "sections").t = "array") =>
    /\ [i \in 1..Len(pout.result.value) |->
          [title |-> pout.result.value[i].title, items |-> pout.result.value[i].items]]
         = DisplayedSections(Field(pin.doc, "sections").v, pin.language)
    /\ \A i \in 1..Len(pout.result.value) :
         \E j \in 1..Len(Field(pin.doc, "sections").v), l \in Languages :
           pout.result.value[i].items = ItemsIn(Field(pin.doc, "sections").v[j], l)

\* C22: for every scalar, paragraph and list field and every requested
\* language the displayed value is the value for that language when it is
\* not empty, else the value for the other language, else empty; a displayed
\* list is one of the two language lists as a whole; the title and the items
\* of a section fall back independently of each other.
C22_LanguageFallback ==
  /\ SummaryFallsBack
  /\ SectionsFallBack
  /\ Projected("personName") =>
       pout.result.value = Displayed(NameIn(pin.doc, pin.language),
                                     NameIn(pin.doc, OtherLanguage(pin.language)))

\* C22 as the code has it: the person name is never empty, the default name
\* stands in when neither language has one
C22_LanguageFallbackDefaultName ==
  /\ SummaryFallsBack
  /\ SectionsFallBack
  /\ Projected("personName") =>
       pout.result.value =
         Displayed(Displayed(NameIn(pin.doc, pin.language),
                             NameIn(pin.doc, OtherLanguage(pin.language))),
                   DEFAULT_PERSON_NAME)

\* the Japanese page of a section with a Japanese title and English items
\* only: the title stays Japanese, the items are the English list
C22_Witness ==
  /\ Projected("normalizeSections")
  /\ pin.language = "ja"
  /\ ~pout.result.threw
  /\ Field(pin.doc, "sections") = Arr(<<SectionMixed, SectionBoth>>)
  /\ pout.result.value[1].title = T_shokureki
  /\ pout.result.value[1].items = <<T_roleA>>
  /\ pout.result.value[2].title = T_experience
  /\ pout.result.value[2].items = <<T_shokureki, T_name>>

(***************************************************************************)
(* The labels of the generic profile links                                 *)
(***************************************************************************)
\* the entries of sameAs before any of them is dropped for its URL: the
\* items of a list, the non-empty parts of a string
GenericEntries(raw) ==
  IF raw.t = "array" THEN PickAll(raw.v)
  ELSE DropEmpty(TrimAll(SplitOn(pick(raw), {"\n", ","})))

\* entry i has no label of its own, passes the gate, and its URL is neither
\* that of a known field nor that of an earlier entry
FirstUnlabelled(entries, i, known) ==
  /\ ~includes(entries[i], <<"|">>)
  /\ toSafeUrl(Str(entries[i])) # Null
  /\ \A k \in 1..Len(known) : known[k].url # toSafeUrl(Str(entries[i])).v
  /\ \A j \in 1..(i - 1) :
       ~includes(entries[j], <<"|">>) => toSafeUrl(Str(entries[j])) # toSafeUrl(Str(entries[i]))

LabelledByPosition(links, entries, known) ==
  \A i \in 1..Len(entries) :
    FirstUnlabelled(entries, i, known) =>
      \E k \in 1..Len(links) :
        /\ links[k].url = toSafeUrl(Str(entries[i])).v
        /\ links[k].label = ProfileLabel(i - 1)

\* C23: a generic profile-link entry without a label of its own is labelled
\* 'Profile N' with N its 1-based position in the list of entries before any
\* entry is dropped, for a list and for a newline- or comma-separated string;
\* dropping an earlier entry that fails the URL gate does not renumber the
\* later ones, and the server and the client label the same input alike.
C23_ProfileLabelByPosition ==
  /\ (Projected("profileLinks") /\ pin.doc # Null) =>
       LabelledByPosition(pout.result.value,
                          GenericEntries(FirstOf(pin.doc, GenericLinkKeys)),
                          KnownLinks(pin.doc))
  /\ (Projected("normalizeProfileLinks") /\ pin.doc # Null) =>
       LabelledByPosition(pout.result.value,
                          GenericEntries(FirstOf(pin.doc, GenericLinkKeys)),
                          ClientKnownLinks(pin.doc))

(***************************************************************************)
(* Concurrent reads                                                        *)
(***************************************************************************)
ConcurrentHandlers == {"resumeHtml", "sitemap"}

SomeReadPending == \E r \in DOMAIN reads : reads[r].st = "pending"

\* C24: resumeHtmlHandler and sitemapHandler, which issue their reads
\* concurrently, send nothing while a read is outstanding and none has
\* failed; once all reads have completed the response is the one computed
\* from the results, whatever the order of completion; as soon as one read
\* fails the response is the 500 failure response, never a partly built page
\* or sitemap, whichever reads had succeeded before.
C24_AllReadsThenRender ==
  (req # NoRequest /\ req.handler \in ConcurrentHandlers) =>
    /\ (SomeReadPending /\ ~SomeReadFailed /\ ~HandlerRaised) => res = NewResponse
    /\ (res.sent > 0 /\ ~SomeReadFailed /\ ~HandlerRaised) =>
         /\ AllReadsOk
         /\ res.status = 200
         /\ res = ResponseFrom(req, siteUrlEnv,
                               [r \in DOMAIN reads |-> ReadOk(reads[r].snapshot)])
    /\ SomeReadFailed =>
         /\ res.sent = 1
         /\ res.status = 500
         /\ res.headers["Content-Type"] = CT_Plain
         /\ res.body = TextBody(FailureMessage(req.handler))

\* the sitemap of a filled store, sent after its six reads
C24_Witness ==
  /\ AnsweredAfterReads("sitemap")
  /\ Cardinality(DOMAIN reads) = 6
  /\ res.status = 200
  /\ Len(res.body.items) > Len(StaticPaths)

FairSpec == Spec /\ WF_vars(ReadFails \/ ReadSucceeds)

\* the statuses a handler answers with
StatusesOf(handler) ==
  IF handler = "resumePdf" THEN {302, 404, 500} ELSE {200, 500}

\* the awaited reads have settled, so the handler has run to its end
HandlerDone == req # NoRequest /\ (AllReadsOk \/ SomeReadFailed \/ HandlerRaised)

OneResponseSoFar ==
  req # NoRequest =>
    /\ res.sent \in {0, 1}
    /\ (res.sent = 1) <=> HandlerDone
    /\ res.sent = 1 => res.status \in StatusesOf(req.handler)
    /\ res.sent = 0 => res = NewResponse

\* a response that was sent is not touched again by its invocation
SentIsFinal == res.sent > 0 => res' \in {res, NewResponse}

\* C26: every invocation of the three handlers sends exactly one response,
\* never none and never two, on the success, the not-configured and the
\* failure path alike; its status is 200 or 500 for the resume page and the
\* sitemap, and 302, 404 or 500 for the resume PDF.
C26_ExactlyOneResponse ==
  /\ [](OneResponseSoFar)
  /\ [][SentIsFinal]_vars
  /\ (req # NoRequest) ~> (res.sent = 1)

\* the not-configured answer of the PDF handler
C26_Witness ==
  /\ req # NoRequest
  /\ req.handler = "resumePdf"
  /\ AllReadsOk
  /\ res.sent = 1
  /\ res.status = 404

(***************************************************************************)
(* Error responses and the caching headers                                 *)
(***************************************************************************)
ErrorSent == req # NoRequest /\ res.sent > 0 /\ res.status \in {404, 500}

\* C27: no 404 or 500 response of any handler carries the Cache-Control
\* (or Vary) header of the success path: each handler sets these headers
\* after its last step that can fail, so an error response is never marked
\* publicly cacheable.
C27_ErrorsNotCacheable ==
  /\ ErrorSent =>
       /\ res.headers["Cache-Control"] = ""
       /\ res.headers["Vary"] = ""
       /\ res.headers["Content-Type"] = CT_Plain
  /\ (req # NoRequest /\ res.sent > 0 /\ res.headers["Cache-Control"] # "") =>
       res.status \in {200, 302}

\* the resume page failing inside its try block, after both reads succeeded
C27_Witness ==
  /\ ErrorSent
  /\ req.handler = "resumeHtml"
  /\ AllReadsOk
  /\ HandlerRaised
  /\ res.status = 500

(***************************************************************************)
(* The PDF link of the page and the PDF handler                            *)
(***************************************************************************)
S_langParam == <<"?","l","a","n","g","=">>

\* the lang parameter of the request a browser makes for the link href
QueryOfLink(href) ==
  IF Len(href) > Len(S_resumePdfPath)
  THEN Str(SubSeq(href, Len(S_resumePdfPath) + Len(S_langParam) + 1, Len(href)))
  ELSE Undef

\* a page request for one language, made while the request in flight is
\* being served
PageRequest(language) ==
  [handler |-> "resumeHtml",
   query |-> [lang |-> Str(IF language = "ja" THEN S_ja ELSE S_en)],
   headers |-> NoHeaders,
   now |-> req.now,
   language |-> language]

\* the resume page of one language rendered from the version of
\* public/resume the PDF handler has read
PageOfSameDocument(language) ==
  ResumeHtmlRespond(NewResponse, PageRequest(language), siteUrlEnv,
                    reads["resume"].snapshot, store["site"])

FollowsLinkOf(page) ==
  /\ page.body.pdfAnchor # <<>>
  /\ req.query.lang = QueryOfLink(page.body.pdfAnchor[1].href)

\* C28: against one version of public/resume, and the read of the PDF
\* handler succeeding: when the resume page of a language shows the PDF
\* link, the request made by following it (/resume.pdf for en,
\* /resume.pdf?lang=ja for ja, under any Accept-Language header) is answered
\* 302, never 404; when the page shows no PDF link, the PDF handler answers
\* 404 whatever the language asked for.
C28_PdfLinkLeadsToPdf ==
  AnsweredAfterReads("resumePdf") =>
    \A language \in Languages :
      LET page == PageOfSameDocument(language)
      IN  page.status = 200 =>
            /\ FollowsLinkOf(page) => res.status = 302 /\ res.location # Null
            /\ page.body.pdfAnchor = <<>> => res.status = 404

\* the link of the Japanese page followed, the resume storing an English
\* PDF only
C28_Witness ==
  /\ AnsweredAfterReads("resumePdf")
  /\ PageOfSameDocument("ja").status = 200
  /\ FollowsLinkOf(PageOfSameDocument("ja"))
  /\ GatedUrl(loadResumeDoc(reads["resume"].snapshot), "ja") = Null
  /\ res.status = 302

(***************************************************************************)
(* One version of each document in one page                                *)
(***************************************************************************)
\* a read that has resolved is not made again by the same request
ReadOnce ==
  \A name \in DOMAIN reads \cap DOMAIN reads' :
    (reads[name].st = "ok" /\ req' = req) => reads'[name] \in {reads[name], Discarded}

MetadataLines(doc) ==
  (IF pick(Coalesce(Field(doc, "updatedAt"), Field(doc, "updated_at"))) # <<>>
   THEN 1 ELSE 0)
  + (IF pick(Coalesce(Field(doc, "ja_eta"),
            Coalesce(Field(doc, "eta_ja"), Field(doc, "jaTargetDate")))) # <<>>
     THEN 1 ELSE 0)

\* the parts of the page taken from public/resume agree with one document
FromResumeVersion(body, doc, language) ==
  /\ (body.pdfAnchor # <<>>) <=> (preferredResumeUrl(doc, language) # Null)
  /\ Len(body.metadata) = MetadataLines(doc)
  /\ body.content = ContentArea(summaryParagraphs(doc, language),
                                normalizeSections(doc, language).value,
                                NeutralMessage(language))

\* the parts of the page taken from public/site agree with one document
FromSiteVersion(body, site, language, now) ==
  /\ body.brandName = escapeHtml(personName(site, language))
  /\ body.structuredData.personName = JsonString(personName(site, language))
  /\ body.profiles = [i \in 1..Len(profileLinks(site)) |->
                        [href |-> escapeHtml(profileLinks(site)[i].url),
                         label |-> escapeHtml(profileLinks(site)[i].label)]]
  /\ body.structuredData.sameAs =
       [i \in 1..Len(profileLinks(site)) |-> JsonString(profileLinks(site)[i].url)]
  /\ body.footer = escapeHtml(footerCopy(site, language, now))

OneVersionEach ==
  ResumePageRendered =>
    /\ FromResumeVersion(res.body, loadResumeDoc(reads["resume"].snapshot), req.language)
    /\ FromSiteVersion(res.body, loadSiteDoc(reads["site"].snapshot), req.language, req.now)

\* C29: within one request each stored document is read once, and the read
\* returns the document as stored at one moment; so under every
\* interleaving with admin writes the parts of a resume page that derive
\* from public/resume (PDF link, updated and ETA lines, summary, sections)
\* come from one version of it, and the parts that derive from public/site
\* (display name, profile links, JSON-LD sameAs, footer) from one version of
\* that document.
C29_OneVersionPerDocument ==
  /\ [](OneVersionEach)
  /\ [][ReadOnce /\ ReadReturnsStored]_vars

\* a page whose site document was rewritten by the admin after it was read
C29_Witness ==
  /\ ResumePageRendered
  /\ writes > 0
  /\ reads["site"].snapshot # store["site"]
  /\ res.body.profiles # <<>>

(***************************************************************************)
(* web/src/lib/language: the LanguageProvider of one browser tab.  A       *)
(* render commits the state and queues the effects whose dependencies      *)
(* changed; React runs the queued effects before it renders again and      *)
(* before it handles a click; state updates made meanwhile are queued and  *)
(* applied in order by the next render.  Under React.StrictMode a          *)
(* development build runs the mount effects a second time, a production    *)
(* build does not.                                                         *)
(***************************************************************************)
MaxClicks == 2

LanguageChars(language) == IF language = "ja" THEN S_ja ELSE S_en

\* what localStorage may hold under STORAGE_KEY when the tab opens
StoredAtMount == {Null, Str(S_en), Str(S_ja), Str(<<"f","r">>)}

RestoreEffect == [kind |-> "restore"]

PersistEffect(language) == [kind |-> "persist", language |-> language]

SetUpdate(language) == [op |-> "set", language |-> language]

ToggleUpdate == [op |-> "toggle"]

\* the effects of the first commit: both effects, and both once more when
\* the mount effects are run twice
MountEffects(strict) ==
  IF strict
  THEN <<RestoreEffect, PersistEffect("en"), RestoreEffect, PersistEffect("en")>>
  ELSE <<RestoreEffect, PersistEffect("en")>>

\* useState's queue: the updates applied in order to the committed state
RECURSIVE ApplyUpdates(_, _)
ApplyUpdates(updates, language) ==
  IF updates = <<>> THEN language
  ELSE ApplyUpdates(Tail(updates),
                    IF Head(updates).op = "set" THEN Head(updates).language
                    ELSE IF language = "en" THEN "ja" ELSE "en")

InitLanguage ==
  /\ store = StoreEmpty
  /\ siteUrlEnv = Undef
  /\ clock = T_start
  /\ writes = 0
  /\ req = NoRequest
  /\ reads = [r \in {} |-> Pending]
  /\ res = NewResponse
  /\ pin = NoInput
  /\ pout = NoOutput
  /\ \E stored \in StoredAtMount, strict \in BOOLEAN :
       client = [phase |-> "unmounted",
                 strict |-> strict,
                 atMount |-> stored,
                 stored |-> stored,
                 language |-> "en",
                 updates |-> <<>>,
                 effects |-> <<>>,
                 clicks |-> 0]

ServerIdle == UNCHANGED <<store, siteUrlEnv, clock, writes, req, reads, res, pin, pout>>

\* the first render: useState('en'), then both effects are queued
LanguageProvider ==
  /\ client.phase = "unmounted"
  /\ client' = [client EXCEPT !.phase = "mounted",
                              !.language = "en",
                              !.effects = MountEffects(client.strict)]
  /\ ServerIdle

\* useEffect(() => { stored = getItem(); if valid, setLanguage(stored) }, [])
RunRestoreEffect ==
  /\ client.phase = "mounted"
  /\ client.effects # <<>>
  /\ Head(client.effects).kind = "restore"
  /\ client' = [client EXCEPT
       !.effects = Tail(@),
       !.updates = IF client.stored = Str(S_en) THEN Append(@, SetUpdate("en"))
                   ELSE IF client.stored = Str(S_ja) THEN Append(@, SetUpdate("ja"))
                   ELSE @]
  /\ ServerIdle

\* useEffect(() => { setItem(STORAGE_KEY, language) }, [language])
RunPersistEffect ==
  /\ client.phase = "mounted"
  /\ client.effects # <<>>
  /\ Head(client.effects).kind = "persist"
  /\ client' = [client EXCEPT
       !.effects = Tail(@),
       !.stored = Str(LanguageChars(Head(client.effects).language))]
  /\ ServerIdle

\* a render caused by queued state updates; the persistence effect is
\* queued when the language changed
Rerender ==
  /\ client.phase = "mounted"
  /\ client.effects = <<>>
  /\ client.updates # <<>>
  /\ LET next == ApplyUpdates(client.updates, client.language)
     IN  client' = [client EXCEPT
           !.language = next,
           !.updates = <<>>,
           !.effects = IF next # client.language THEN <<PersistEffect(next)>> ELSE <<>>]
  /\ ServerIdle

\* a click on a button of the LanguageSwitcher
setLanguage ==
  /\ client.phase = "mounted"
  /\ client.effects = <<>>
  /\ client.clicks < MaxClicks
  /\ \E code \in Languages :
       client' = [client EXCEPT !.updates = Append(@, SetUpdate(code)),
                                !.clicks = @ + 1]
  /\ ServerIdle

\* setLanguage(prev => (prev === 'en' ? 'ja' : 'en'))
toggleLanguage ==
  /\ client.phase = "mounted"
  /\ client.effects = <<>>
  /\ client.clicks < MaxClicks
  /\ client' = [client EXCEPT !.updates = Append(@, ToggleUpdate),
                              !.clicks = @ + 1]
  /\ ServerIdle

NextLanguage ==
  \/ LanguageProvider
  \/ RunRestoreEffect
  \/ RunPersistEffect
  \/ Rerender
  \/ setLanguage
  \/ toggleLanguage

SpecLanguage == InitLanguage /\ [][NextLanguage]_vars

\* React mounts the tree it was given, runs every queued effect and renders
\* every queued update; nothing obliges the visitor to click.
FairSpecLanguage ==
  /\ SpecLanguage
  /\ WF_vars(LanguageProvider)
  /\ WF_vars(RunRestoreEffect)
  /\ WF_vars(RunPersistEffect)
  /\ WF_vars(Rerender)

\* the visitor has not chosen a language yet
NoClickYet == client.clicks = 0

ActiveAndStored(language) ==
  /\ client.phase = "mounted"
  /\ client.language = language
  /\ client.stored = Str(LanguageChars(language))

\* C30: when localStorage holds 'en' or 'ja' at mount, that language becomes
\* the active language and the stored value eventually equals it (unless the
\* visitor chooses a language first), also when the mount effects are run
\* twice; and the stored value always comes to equal the active language
\* again, so after every setLanguage or toggleLanguage too.
C30_StoredLanguageRestored ==
  /\ \A language \in Languages :
       (client.atMount = Str(LanguageChars(language)))
         ~> (ActiveAndStored(language) \/ ~NoClickYet)
  /\ []<>(client.phase = "mounted" /\ client.effects = <<>> /\ client.updates = <<>>
          /\ client.stored = Str(LanguageChars(client.language)))

====
